---- MODULE Spec2Model ----
(***************************************************************************)
(* Timeline document model, execution engine and command history of the   *)
(* backend (src/backend/app): the Timeline structural operations, the      *)
(* CommandExecutor with its handlers, and the linear undo/redo history.    *)
(*                                                                         *)
(* Encoding of Python values:                                              *)
(*   None (where a string or an id is expected)  -> the string None        *)
(*   Optional[int]                               -> <<>> or <<v>>          *)
(*   uuid4() strings                             -> Uuid(n), n a counter   *)
(*   seconds given as floats (CUT start/end)     -> integer milliseconds   *)
(*   a raised exception                          -> field exc # None       *)
(* Clips, compound clips and Effect objects stored in a track share one    *)
(* record shape; _type is the class name.                                  *)
(***************************************************************************)
EXTENDS Integers, Sequences, FiniteSets, TLC

VARIABLES timeline, entries, undo_stack, nextId, last, ghost

vars == <<timeline, entries, undo_stack, nextId, last, ghost>>

None == "None"
Nothing == <<>>
Some(v) == <<v>>
FRAME_RATE == 30

(* ---------------------------------------------------------------------- *)
(* Sequence helpers                                                        *)
(* ---------------------------------------------------------------------- *)
Front(s) == SubSeq(s, 1, Len(s) - 1)
Last(s) == s[Len(s)]
RemoveAt(s, i) == SubSeq(s, 1, i - 1) \o SubSeq(s, i + 1, Len(s))
InsertAt(s, i, x) == SubSeq(s, 1, i - 1) \o <<x>> \o SubSeq(s, i, Len(s))
SetMin(S) == CHOOSE m \in S : \A x \in S : m <= x
SetMax(S) == CHOOSE m \in S : \A x \in S : m >= x
Abs(x) == IF x < 0 THEN 0 - x ELSE x

\* Python round(n / d) for d > 0: round half to even.
RoundHalfEven(n, d) ==
    LET q == n \div d
        r == n % d
    IN  IF 2 * r < d THEN q
        ELSE IF 2 * r > d THEN q + 1
        ELSE IF q % 2 = 0 THEN q ELSE q + 1

Uuid(n) == "id" \o ToString(n)

(* ---------------------------------------------------------------------- *)
(* Clips                                                                   *)
(* ---------------------------------------------------------------------- *)
VideoClip(name, start_frame, end_frame, track_type, file_path, clip_id) ==
    [_type |-> "VideoClip", clip_id |-> clip_id, name |-> name,
     start |-> start_frame, end |-> end_frame, track_type |-> track_type,
     effects |-> <<>>, file_path |-> file_path, clips |-> <<>>,
     effect_type |-> None, params |-> <<>>, estart |-> Nothing, eend |-> Nothing]

\* CompoundClip.recalculate_bounds: only when there is at least one child.
recalculate_bounds(c) ==
    IF c.clips # <<>>
    THEN [c EXCEPT !.start = SetMin({c.clips[i].start : i \in DOMAIN c.clips}),
                   !.end = SetMax({c.clips[i].end : i \in DOMAIN c.clips})]
    ELSE c

\* CompoundClip.__init__: add_clip for each child, each followed by
\* recalculate_bounds; the last recalculation covers all children.
CompoundClip(name, start_frame, end_frame, track_type, clips, clip_id) ==
    recalculate_bounds(
        [_type |-> "CompoundClip", clip_id |-> clip_id, name |-> name,
         start |-> start_frame, end |-> end_frame, track_type |-> track_type,
         effects |-> <<>>, file_path |-> None, clips |-> clips,
         effect_type |-> None, params |-> <<>>, estart |-> Nothing, eend |-> Nothing])

\* An Effect object (it has no name, clip_id, track_type or clips attribute;
\* its optional frame range is estart/eend).
Effect(effect_type, params, start, end) ==
    [_type |-> "Effect", clip_id |-> None, name |-> None,
     start |-> 0, end |-> 0, track_type |-> None,
     effects |-> <<>>, file_path |-> None, clips |-> <<>>,
     effect_type |-> effect_type, params |-> params, estart |-> start, eend |-> end]

IsCompound(c) == c._type = "CompoundClip"
IsEffect(c) == c._type = "Effect"

Track(name, track_type) == [name |-> name, track_type |-> track_type, clips |-> <<>>]

Transition(from_clip, to_clip, transition_type, duration) ==
    [from_clip |-> from_clip, to_clip |-> to_clip,
     transition_type |-> transition_type, duration |-> duration]

\* Timeline.__init__
Timeline(frame_rate) ==
    [tracks |-> <<Track("Video 1", "video"), Track("Audio 1", "audio"),
                  Track("Subtitles", "subtitle"), Track("Effects", "effect")>>,
     duration |-> 0, transitions |-> <<>>, frame_rate |-> frame_rate]

(* ---------------------------------------------------------------------- *)
(* The recursive locator.  A location is the path of 1-based indices from *)
(* the track's clip list down to the clip; <<>> stands for (None, None,   *)
(* None).  The owning container is the list the last index points into.   *)
(* ---------------------------------------------------------------------- *)
RECURSIVE FindFrom(_, _, _, _)
FindFrom(clips, i, byId, target) ==
    IF i > Len(clips) THEN <<>>
    ELSE LET clip == clips[i]
             hit == IF byId THEN clip.clip_id = target ELSE clip.name = target
         IN  IF hit THEN <<i>>
             ELSE LET found == IF IsCompound(clip)
                               THEN FindFrom(clip.clips, 1, byId, target)
                               ELSE <<>>
                  IN  IF found # <<>> THEN <<i>> \o found
                      ELSE FindFrom(clips, i + 1, byId, target)

_find_clip_recursive_by_id(clips, target_id) == FindFrom(clips, 1, TRUE, target_id)

_find_clip_recursive(clips, target_name, target_id) ==
    IF target_id # None
    THEN _find_clip_recursive_by_id(clips, target_id)
    ELSE FindFrom(clips, 1, FALSE, target_name)

RECURSIVE ClipAt(_, _)
ClipAt(clips, path) ==
    IF Len(path) = 1 THEN clips[path[1]]
    ELSE ClipAt(clips[path[1]].clips, Tail(path))

RECURSIVE ParentAt(_, _)
ParentAt(clips, path) ==
    IF Len(path) = 1 THEN clips
    ELSE ParentAt(clips[path[1]].clips, Tail(path))

\* Replace the owning container reached by path with newList.  With
\* recalc, every CompoundClip on the path gets recalculate_bounds, bottom-up
\* (Timeline._update_ancestor_bounds); without it the ancestors are left as
\* they are.
RECURSIVE SetParent(_, _, _, _)
SetParent(clips, path, newList, recalc) ==
    IF Len(path) = 1 THEN newList
    ELSE LET i == path[1]
             child == [clips[i] EXCEPT
                          !.clips = SetParent(clips[i].clips, Tail(path), newList, recalc)]
         IN  [clips EXCEPT ![i] = IF recalc THEN recalculate_bounds(child) ELSE child]

_update_ancestor_bounds(clips, path, newList) == SetParent(clips, path, newList, TRUE)

(* ---------------------------------------------------------------------- *)
(* Timeline methods.  Each returns [tl, ret, exc, nid]: the timeline after *)
(* the call, the return value, the exception raised (None if none) and    *)
(* the uuid counter.                                                       *)
(* ---------------------------------------------------------------------- *)
\* notified counts the calls of the on_change hook made by the method, seen is
\* the timeline the hook was last handed
Ret(tl, ret, nid) == [tl |-> tl, ret |-> ret, exc |-> None, nid |-> nid, notified |-> 0, seen |-> Nothing]
Raise(tl, exc, nid) == [tl |-> tl, ret |-> FALSE, exc |-> exc, nid |-> nid, notified |-> 0, seen |-> Nothing]

\* Timeline._notify_change, on the outcome r the method is about to return
_notify_change(r) == [r EXCEPT !.notified = @ + 1, !.seen = Some(r.tl)]

TrackPositions(tl, track_type) ==
    {i \in DOMAIN tl.tracks : tl.tracks[i].track_type = track_type}

\* Timeline.get_track: position in tl.tracks of the index-th track of the
\* type, 0 when it raises IndexError (a negative index within range is
\* Python's indexing from the end).
get_track(tl, track_type, index) ==
    LET P == TrackPositions(tl, track_type)
        n == Cardinality(P)
        k == IF index < 0 THEN n + index ELSE index
    IN  IF P = {} \/ index >= n \/ k < 0 THEN 0
        ELSE CHOOSE i \in P : Cardinality({j \in P : j < i}) = k

SetTrackClips(tl, pos, clips) == [tl EXCEPT !.tracks[pos].clips = clips]

seconds_to_frames(tl, seconds) == RoundHalfEven(seconds * tl.frame_rate, 1)

\* type(clip)(name=..., start_frame=..., end_frame=..., clip_id=...)
\* a type(clip)(...) that hands the replaced clip's id on to the new clip
SameTypeClip_keeps_id(clip, name, start_frame, end_frame, clip_id) ==
    IF IsCompound(clip)
    THEN CompoundClip(name, start_frame, end_frame, "video", <<>>, clip.clip_id)
    ELSE VideoClip(name, start_frame, end_frame, "video", None, clip.clip_id)

SameTypeClip(clip, name, start_frame, end_frame, clip_id) ==
    IF IsCompound(clip)
    THEN CompoundClip(name, start_frame, end_frame, "video", <<>>, clip_id)
    ELSE VideoClip(name, start_frame, end_frame, "video", None, clip_id)

trim_clip(tl, clip_name, timestamp, track_type, track_index, clip_id, nid) ==
    LET pos == get_track(tl, track_type, track_index)
    IN  IF pos = 0 THEN Raise(tl, "IndexError", nid)
        ELSE
        LET clips == tl.tracks[pos].clips
            path == _find_clip_recursive(clips, clip_name, clip_id)
        IN  IF path = <<>> \/ timestamp = Nothing THEN Ret(tl, FALSE, nid)
            ELSE
            LET clip == ClipAt(clips, path)
                parent == ParentAt(clips, path)
                idx == path[Len(path)]
                timestamp_frame == seconds_to_frames(tl, timestamp[1])
                duration1 == timestamp_frame - clip.start
                duration2 == clip.end - timestamp_frame
                first == SameTypeClip(clip, clip.name \o "_part1", clip.start,
                                      clip.start + duration1, Uuid(nid))
                second == SameTypeClip(clip, clip.name \o "_part2", timestamp_frame,
                                       timestamp_frame + duration2, Uuid(nid + 1))
                newParent == InsertAt(InsertAt(RemoveAt(parent, idx), idx, second), idx, first)
            IN  IF IsEffect(clip)
                THEN \* an Effect has an optional range and no name keyword
                     IF clip.estart = Nothing THEN Raise(tl, "TypeError", nid)
                     ELSE IF ~(clip.estart[1] < timestamp_frame) THEN Ret(tl, FALSE, nid)
                     ELSE IF clip.eend = Nothing THEN Raise(tl, "TypeError", nid)
                     ELSE IF timestamp_frame < clip.eend[1] THEN Raise(tl, "TypeError", nid)
                     ELSE Ret(tl, FALSE, nid)
                ELSE IF clip.start < timestamp_frame /\ timestamp_frame < clip.end
                THEN _notify_change(Ret(SetTrackClips(tl, pos, _update_ancestor_bounds(clips, path, newParent)),
                         TRUE, nid + 2))
                ELSE Ret(tl, FALSE, nid)

\* variant: the two clips are joined whatever lies between them
join_clips_any_gap(tl, first_clip_name, second_clip_name, track_type, track_index, first_clip_id, second_clip_id, nid) ==
    LET pos == get_track(tl, track_type, track_index)
    IN  IF pos = 0 THEN Raise(tl, "IndexError", nid)
        ELSE
        LET clips == tl.tracks[pos].clips
            path == _find_clip_recursive(clips, first_clip_name, first_clip_id)
        IN  IF path = <<>> THEN Ret(tl, FALSE, nid)
            ELSE
            LET first == ClipAt(clips, path)
                parent == ParentAt(clips, path)
                idx == path[Len(path)]
            IN  IF ~(idx + 1 <= Len(parent)) THEN Ret(tl, FALSE, nid)
                ELSE
                LET second == parent[idx + 1]
                    matches == \/ second_clip_id # None /\ second.clip_id = second_clip_id
                               \/ second_clip_id = None /\ second.name = second_clip_name
                    joined_clip == SameTypeClip(first, first.name \o "_joined_" \o second.name,
                                                first.start, second.end, Uuid(nid))
                    newParent == InsertAt(RemoveAt(RemoveAt(parent, idx + 1), idx), idx, joined_clip)
                IN  IF ~matches THEN Ret(tl, FALSE, nid)
                    ELSE IF IsEffect(first) \/ IsEffect(second) THEN Raise(tl, "TypeError", nid)
                    ELSE IF TRUE
                    THEN _notify_change(Ret(SetTrackClips(tl, pos, _update_ancestor_bounds(clips, path, newParent)),
                             TRUE, nid + 1))
                    ELSE Ret(tl, FALSE, nid)

join_clips(tl, first_clip_name, second_clip_name, track_type, track_index, first_clip_id, second_clip_id, nid) ==
    LET pos == get_track(tl, track_type, track_index)
    IN  IF pos = 0 THEN Raise(tl, "IndexError", nid)
        ELSE
        LET clips == tl.tracks[pos].clips
            path == _find_clip_recursive(clips, first_clip_name, first_clip_id)
        IN  IF path = <<>> THEN Ret(tl, FALSE, nid)
            ELSE
            LET first == ClipAt(clips, path)
                parent == ParentAt(clips, path)
                idx == path[Len(path)]
            IN  IF ~(idx + 1 <= Len(parent)) THEN Ret(tl, FALSE, nid)
                ELSE
                LET second == parent[idx + 1]
                    matches == \/ second_clip_id # None /\ second.clip_id = second_clip_id
                               \/ second_clip_id = None /\ second.name = second_clip_name
                    joined_clip == SameTypeClip(first, first.name \o "_joined_" \o second.name,
                                                first.start, second.end, Uuid(nid))
                    newParent == InsertAt(RemoveAt(RemoveAt(parent, idx + 1), idx), idx, joined_clip)
                IN  IF ~matches THEN Ret(tl, FALSE, nid)
                    ELSE IF IsEffect(first) \/ IsEffect(second) THEN Raise(tl, "TypeError", nid)
                    ELSE IF Abs(first.end - second.start) = 0
                    THEN _notify_change(Ret(SetTrackClips(tl, pos, _update_ancestor_bounds(clips, path, newParent)),
                             TRUE, nid + 1))
                    ELSE Ret(tl, FALSE, nid)

\* an add_transition that does not compare first.end with second.start
add_transition_any_gap(tl, from_clip_name, to_clip_name, transition_type, duration, track_type, track_index, from_clip_id, to_clip_id, nid) ==
    LET pos == get_track(tl, track_type, track_index)
    IN  IF pos = 0 THEN Raise(tl, "IndexError", nid)
        ELSE
        LET clips == tl.tracks[pos].clips
            path == _find_clip_recursive(clips, from_clip_name, from_clip_id)
        IN  IF path = <<>> THEN Ret(tl, FALSE, nid)
            ELSE
            LET first == ClipAt(clips, path)
                parent == ParentAt(clips, path)
                idx == path[Len(path)]
            IN  IF ~(idx + 1 <= Len(parent)) THEN Ret(tl, FALSE, nid)
                ELSE
                LET second == parent[idx + 1]
                    matches == \/ to_clip_id # None /\ second.clip_id = to_clip_id
                               \/ to_clip_id = None /\ second.name = to_clip_name
                    transition == Transition(
                        IF from_clip_name # None THEN from_clip_name ELSE from_clip_id,
                        IF to_clip_name # None THEN to_clip_name ELSE to_clip_id,
                        transition_type, duration)
                IN  IF ~matches THEN Ret(tl, FALSE, nid)
                    ELSE IF IsEffect(first) \/ IsEffect(second) THEN Raise(tl, "TypeError", nid)
                    ELSE IF TRUE
                    THEN _notify_change(Ret([tl EXCEPT !.transitions = Append(@, transition)], TRUE, nid))
                    ELSE Ret(tl, FALSE, nid)

add_transition(tl, from_clip_name, to_clip_name, transition_type, duration, track_type, track_index, from_clip_id, to_clip_id, nid) ==
    LET pos == get_track(tl, track_type, track_index)
    IN  IF pos = 0 THEN Raise(tl, "IndexError", nid)
        ELSE
        LET clips == tl.tracks[pos].clips
            path == _find_clip_recursive(clips, from_clip_name, from_clip_id)
        IN  IF path = <<>> THEN Ret(tl, FALSE, nid)
            ELSE
            LET first == ClipAt(clips, path)
                parent == ParentAt(clips, path)
                idx == path[Len(path)]
            IN  IF ~(idx + 1 <= Len(parent)) THEN Ret(tl, FALSE, nid)
                ELSE
                LET second == parent[idx + 1]
                    matches == \/ to_clip_id # None /\ second.clip_id = to_clip_id
                               \/ to_clip_id = None /\ second.name = to_clip_name
                    transition == Transition(
                        IF from_clip_name # None THEN from_clip_name ELSE from_clip_id,
                        IF to_clip_name # None THEN to_clip_name ELSE to_clip_id,
                        transition_type, duration)
                IN  IF ~matches THEN Ret(tl, FALSE, nid)
                    ELSE IF IsEffect(first) \/ IsEffect(second) THEN Raise(tl, "TypeError", nid)
                    ELSE IF Abs(first.end - second.start) = 0
                    THEN _notify_change(Ret([tl EXCEPT !.transitions = Append(@, transition)], TRUE, nid))
                    ELSE Ret(tl, FALSE, nid)

\* a remove_clip that calls the hook even when the clip is not found
remove_clip_notify_always(tl, clip_name, track_type, track_index, clip_id, nid) ==
    LET pos == get_track(tl, track_type, track_index)
    IN  IF pos = 0 THEN Raise(tl, "IndexError", nid)
        ELSE
        LET clips == tl.tracks[pos].clips
            path == _find_clip_recursive(clips, clip_name, clip_id)
        IN  IF path = <<>> THEN _notify_change(Ret(tl, FALSE, nid))
            ELSE LET newParent == RemoveAt(ParentAt(clips, path), path[Len(path)])
                 IN  _notify_change(Ret(SetTrackClips(tl, pos, _update_ancestor_bounds(clips, path, newParent)),
                         TRUE, nid))

\* Timeline.remove_clip
remove_clip(tl, clip_name, track_type, track_index, clip_id, nid) ==
    LET pos == get_track(tl, track_type, track_index)
    IN  IF pos = 0 THEN Raise(tl, "IndexError", nid)
        ELSE
        LET clips == tl.tracks[pos].clips
            path == _find_clip_recursive(clips, clip_name, clip_id)
        IN  IF path = <<>> THEN Ret(tl, FALSE, nid)
            ELSE LET newParent == RemoveAt(ParentAt(clips, path), path[Len(path)])
                 IN  _notify_change(Ret(SetTrackClips(tl, pos, _update_ancestor_bounds(clips, path, newParent)),
                         TRUE, nid))

\* Depth-first, pre-order flattening: the sequence of the paths of all clips.
RECURSIVE flatten_clips(_, _, _)
flatten_clips(clips, i, prefix) ==
    IF i > Len(clips) THEN <<>>
    ELSE <<prefix \o <<i>> >>
         \o (IF IsCompound(clips[i])
             THEN flatten_clips(clips[i].clips, 1, prefix \o <<i>>)
             ELSE <<>>)
         \o flatten_clips(clips, i + 1, prefix)

\* a remove_clip_by_index that takes the index as one-based
remove_clip_by_index_one_based(tl, clip_index, track_type, track_index, nid) ==
    LET pos == get_track(tl, track_type, track_index)
    IN  IF pos = 0 THEN Raise(tl, "IndexError", nid)
        ELSE
        LET clips == tl.tracks[pos].clips
            flat == flatten_clips(clips, 1, <<>>)
        IN  IF 1 <= clip_index /\ clip_index <= Len(flat)
            THEN LET path == flat[clip_index]
                     newParent == RemoveAt(ParentAt(clips, path), path[Len(path)])
                 IN  _notify_change(Ret(SetTrackClips(tl, pos, _update_ancestor_bounds(clips, path, newParent)),
                         TRUE, nid))
            ELSE Ret(tl, FALSE, nid)

remove_clip_by_index(tl, clip_index, track_type, track_index, nid) ==
    LET pos == get_track(tl, track_type, track_index)
    IN  IF pos = 0 THEN Raise(tl, "IndexError", nid)
        ELSE
        LET clips == tl.tracks[pos].clips
            flat == flatten_clips(clips, 1, <<>>)
        IN  IF 0 <= clip_index /\ clip_index < Len(flat)
            THEN LET path == flat[clip_index + 1]
                     newParent == RemoveAt(ParentAt(clips, path), path[Len(path)])
                 IN  _notify_change(Ret(SetTrackClips(tl, pos, _update_ancestor_bounds(clips, path, newParent)),
                         TRUE, nid))
            ELSE Ret(tl, FALSE, nid)

\* Track.add_clip: [clips, exc]; the clip is shifted to the end of the last
\* clip (or to the position) with its duration kept.
\* a Track.add_clip that appends without moving the clip to the end of the track
Track_add_clip_keep_start(track, clip, position) ==
    LET duration == clip.end - clip.start
        placed(s) == [clip EXCEPT !.start = s, !.end = s + duration]
    IN  IF track.clips # <<>>
        THEN LET tail == Last(track.clips)
                 last_end == IF IsEffect(tail) /\ tail.eend # Nothing
                             THEN tail.eend[1] ELSE tail.end
             IN  IF IsEffect(tail) /\ tail.eend = Nothing
                 THEN [clips |-> track.clips, exc |-> "TypeError", clip |-> clip]
                 ELSE
                 IF position # Nothing
                 THEN IF Abs(position[1] - last_end) > 0
                      THEN [clips |-> track.clips, exc |-> "ValueError", clip |-> clip]
                      ELSE [clips |-> Append(track.clips, placed(position[1])), exc |-> None,
                            clip |-> placed(position[1])]
                 ELSE [clips |-> Append(track.clips, clip), exc |-> None, clip |-> clip]
        ELSE [clips |-> Append(track.clips,
                               placed(IF position = Nothing THEN 0 ELSE position[1])),
              exc |-> None,
              clip |-> placed(IF position = Nothing THEN 0 ELSE position[1])]

\* Track.add_clip
Track_add_clip(track, clip, position) ==
    LET duration == clip.end - clip.start
        placed(s) == [clip EXCEPT !.start = s, !.end = s + duration]
    IN  IF track.clips # <<>>
        THEN LET tail == Last(track.clips)
                 last_end == IF IsEffect(tail) /\ tail.eend # Nothing
                             THEN tail.eend[1] ELSE tail.end
             IN  IF IsEffect(tail) /\ tail.eend = Nothing
                 THEN [clips |-> track.clips, exc |-> "TypeError", clip |-> clip]
                 ELSE
                 IF position # Nothing
                 THEN IF Abs(position[1] - last_end) > 0
                      THEN [clips |-> track.clips, exc |-> "ValueError", clip |-> clip]
                      ELSE [clips |-> Append(track.clips, placed(position[1])), exc |-> None,
                            clip |-> placed(position[1])]
                 ELSE [clips |-> Append(track.clips, placed(last_end)), exc |-> None,
                       clip |-> placed(last_end)]
        ELSE [clips |-> Append(track.clips,
                               placed(IF position = Nothing THEN 0 ELSE position[1])),
              exc |-> None,
              clip |-> placed(IF position = Nothing THEN 0 ELSE position[1])]

\* Timeline.add_clip (self.tracks[track_index] is a plain list index).  The
\* field clip is the argument object as the call leaves it.
add_clip(tl, clip, track_index, position, nid) ==
    LET n == Len(tl.tracks)
        pos == IF track_index < 0 THEN n + track_index + 1 ELSE track_index + 1
    IN  IF pos < 1 \/ pos > n THEN Raise(tl, "IndexError", nid) @@ [clip |-> clip]
        ELSE LET r == Track_add_clip(tl.tracks[pos], clip, position)
             IN  IF r.exc # None THEN Raise(tl, r.exc, nid) @@ [clip |-> r.clip]
                 ELSE _notify_change(Ret([SetTrackClips(tl, pos, r.clips) EXCEPT
                              !.duration = IF Last(r.clips).end > @ THEN Last(r.clips).end ELSE @],
                          TRUE, nid)) @@ [clip |-> r.clip]

\* os.path.splitext(os.path.basename(file_path))[0] on the paths used
BaseName == [p \in {"media/intro.mp4", "n.mov"} |-> IF p = "n.mov" THEN "n" ELSE "intro"]

DEFAULT_DURATION_SECONDS == 60

\* Timeline.load_video: builds the clip, then delegates to add_clip
load_video(tl, file_path, track_index, position, duration_seconds, nid) ==
    LET name == BaseName[file_path]
        seconds == IF duration_seconds = Nothing THEN DEFAULT_DURATION_SECONDS
                   ELSE duration_seconds[1]
        end_frame == tl.frame_rate * seconds
        clip == VideoClip(name, 0, end_frame, "video", file_path, Uuid(nid))
    IN  add_clip(tl, clip, track_index, position, nid + 1)

TRACK_TYPES == {"video", "audio", "subtitle", "effect"}

\* list.insert(index, x): the position is clamped to the list
ListInsert(s, index, x) ==
    LET k == IF index < 0 THEN SetMax({Len(s) + index, 0}) ELSE SetMin({index, Len(s)})
    IN  InsertAt(s, k + 1, x)

\* Timeline.add_track
add_track(tl, name, track_type, index, nid) ==
    IF track_type \notin TRACK_TYPES THEN Raise(tl, "ValueError", nid)
    ELSE LET new_track == Track(name, track_type)
         IN  _notify_change(Ret([tl EXCEPT !.tracks =
                                     IF index = Nothing THEN Append(@, new_track)
                                     ELSE ListInsert(@, index[1], new_track)],
                                TRUE, nid))

\* Timeline.remove_track
remove_track(tl, index, track_type, track_index, nid) ==
    IF track_type # None
    THEN LET matches == SelectSeq([i \in 1..Len(tl.tracks) |-> i],
                                  LAMBDA i : tl.tracks[i].track_type = track_type)
             n == Len(matches)
         IN  IF n > track_index
             THEN IF track_index < 0 /\ n + track_index < 0
                  THEN Raise(tl, "IndexError", nid)
                  ELSE LET i == matches[IF track_index < 0 THEN n + track_index + 1
                                        ELSE track_index + 1]
                       IN  _notify_change(Ret([tl EXCEPT !.tracks = RemoveAt(@, i)], TRUE, nid))
             ELSE Ret(tl, FALSE, nid)
    ELSE IF index # Nothing
    THEN IF 0 <= index[1] /\ index[1] < Len(tl.tracks)
         THEN _notify_change(Ret([tl EXCEPT !.tracks = RemoveAt(@, index[1] + 1)], TRUE, nid))
         ELSE Ret(tl, FALSE, nid)
    ELSE Raise(tl, "ValueError", nid)

move_clip(tl, clip_name, source_track_type, source_track_index, dest_track_type, dest_track_index, dest_position, clip_id, nid) ==
    LET spos == get_track(tl, source_track_type, source_track_index)
    IN  IF spos = 0 THEN Raise(tl, "IndexError", nid)
        ELSE
        LET clips == tl.tracks[spos].clips
            path == _find_clip_recursive(clips, clip_name, clip_id)
        IN  IF path = <<>> THEN Ret(tl, FALSE, nid)
            ELSE
            LET parent == ParentAt(clips, path)
                idx == path[Len(path)]
                removed == SetTrackClips(tl, spos,
                               _update_ancestor_bounds(clips, path, RemoveAt(parent, idx)))
                clip_to_move == [parent[idx] EXCEPT !.track_type = dest_track_type]
                dpos == get_track(removed, dest_track_type, dest_track_index)
            IN  \* the clip is already out of its source when these raise
                IF dpos = 0 THEN Raise(removed, "IndexError", nid)
                ELSE LET r == Track_add_clip(removed.tracks[dpos], clip_to_move, dest_position)
                     IN  IF r.exc # None THEN Raise(removed, r.exc, nid)
                         ELSE _notify_change(Ret(SetTrackClips(removed, dpos, r.clips), TRUE, nid))

(* ---------------------------------------------------------------------- *)
(* Edit operations and results                                             *)
(* ---------------------------------------------------------------------- *)
\* The parameter map with no key present.  CUT/OVERLAY start and end are
\* seconds, written in milliseconds; timestamp is in frames.
NoParams ==
    [reference_type |-> None, ordinal |-> None, ref_track_type |-> None,
     track_type |-> None, track_index |-> Nothing, clip_id |-> None,
     second_clip_id |-> None, timestamp |-> Nothing, start |-> Nothing,
     end |-> Nothing, second |-> None, effect |-> None, asset |-> None,
     position |-> None, text |-> None, direction |-> None, target |-> None,
     raw |-> None]

EditOperation(type_, target, parameters) ==
    [type |-> type_, target |-> target, parameters |-> parameters]

ExecutionResult(success, message) == [success |-> success, message |-> message]

\* parameters.get(key, default) for string-valued keys
GetOr(v, default) == IF v = None THEN default ELSE v

\* `x or y` inside an f-string
Either(x, y) == IF x # None THEN x ELSE y

CommandHistoryEntry(command_text, operation, result, before_snapshot, after_snapshot) ==
    [command_text |-> command_text, operation |-> operation, result |-> result,
     before_snapshot |-> before_snapshot, after_snapshot |-> after_snapshot]

(* ---------------------------------------------------------------------- *)
(* CommandHistory.  The executor state threaded through a call is         *)
(* [timeline, entries, undo_stack, nid].                                  *)
(* ---------------------------------------------------------------------- *)
\* variant: only successful commands are recorded
add_entry_successful_only(S, entry) ==
    IF entry.result.success
    THEN [S EXCEPT !.entries = Append(@, entry), !.undo_stack = <<>>]
    ELSE [S EXCEPT !.undo_stack = <<>>]

add_entry(S, entry) ==
    [S EXCEPT !.entries = Append(@, entry), !.undo_stack = <<>>]

\* variant: undo hands back the entry's "after" snapshot
CommandHistory_undo_after(S) ==
    IF S.entries = <<>> THEN [S |-> S, snapshot |-> <<>>]
    ELSE LET entry == Last(S.entries)
         IN  [S |-> [S EXCEPT !.entries = Front(@), !.undo_stack = Append(@, entry)],
              snapshot |-> <<entry.after_snapshot>>]

\* CommandHistory.undo: [S, snapshot]; snapshot is <<>> for None
CommandHistory_undo(S) ==
    IF S.entries = <<>> THEN [S |-> S, snapshot |-> <<>>]
    ELSE LET entry == Last(S.entries)
         IN  [S |-> [S EXCEPT !.entries = Front(@), !.undo_stack = Append(@, entry)],
              snapshot |-> <<entry.before_snapshot>>]

\* variant: redo hands back the entry's "before" snapshot
CommandHistory_redo_before(S) ==
    IF S.undo_stack = <<>> THEN [S |-> S, snapshot |-> <<>>]
    ELSE LET entry == Last(S.undo_stack)
         IN  [S |-> [S EXCEPT !.undo_stack = Front(@), !.entries = Append(@, entry)],
              snapshot |-> <<entry.before_snapshot>>]

CommandHistory_redo(S) ==
    IF S.undo_stack = <<>> THEN [S |-> S, snapshot |-> <<>>]
    ELSE LET entry == Last(S.undo_stack)
         IN  [S |-> [S EXCEPT !.undo_stack = Front(@), !.entries = Append(@, entry)],
              snapshot |-> <<entry.after_snapshot>>]

\* CommandExecutor.undo / redo: [S, ret]
undo(S) ==
    LET r == CommandHistory_undo(S)
    IN  IF r.snapshot # <<>>
        THEN [S |-> [r.S EXCEPT !.timeline = r.snapshot[1]], ret |-> TRUE]
        ELSE [S |-> r.S, ret |-> FALSE]

redo(S) ==
    LET r == CommandHistory_redo(S)
    IN  IF r.snapshot # <<>>
        THEN [S |-> [r.S EXCEPT !.timeline = r.snapshot[1]], ret |-> TRUE]
        ELSE [S |-> r.S, ret |-> FALSE]

(* ---------------------------------------------------------------------- *)
(* Reference resolution                                                    *)
(* ---------------------------------------------------------------------- *)
\* str.lower() on the strings the model uses
Lower(s) ==
    CASE s = "Last Clip" -> "last clip"
      [] s = "First Clip" -> "first clip"
      [] s = "CLIP2" -> "clip2"
      [] s = "Second" -> "second"
      [] s = "Intro" -> "intro"
      [] s = "INTRO" -> "intro"
      [] s = "Music" -> "music"
      [] OTHER -> s

\* reference[len("clip named "):].strip()
StripClipNamed(reference) ==
    CASE reference = "clip named clip2" -> "clip2"
      [] reference = "clip named CLIP2" -> "CLIP2"
      [] reference = "clip named nosuch" -> "nosuch"
      [] reference = "clip named intro" -> "intro"
      [] reference = "clip named INTRO" -> "INTRO"
      [] reference = "clip named music" -> "music"
      [] OTHER -> ""

ORDINALS == <<"first", "second", "third", "fourth", "fifth", "sixth", "seventh",
              "eighth", "ninth", "tenth">>

\* zero-based index of an ordinal word or of a numeric ordinal; <<>> if neither
OrdinalIndex(ordinal) ==
    IF ordinal = None THEN Nothing
    ELSE LET o == Lower(ordinal)
         IN  IF \E i \in DOMAIN ORDINALS : ORDINALS[i] = o
             THEN Some((CHOOSE i \in DOMAIN ORDINALS : ORDINALS[i] = o) - 1)
             ELSE CASE o = "1st" -> Some(0)
                    [] o = "2nd" -> Some(1)
                    [] o = "3rd" -> Some(2)
                    [] o = "4th" -> Some(3)
                    [] o = "0th" -> Some(0 - 1)
                    [] o = "11th" -> Some(10)
                    [] OTHER -> Nothing

TrackPosSeq(tl, track_type) ==
    SelectSeq([i \in 1..Len(tl.tracks) |-> i],
              LAMBDA i : tl.tracks[i].track_type = track_type)

RECURSIVE ConcatClips(_, _, _)
ConcatClips(tl, posSeq, k) ==
    IF k > Len(posSeq) THEN <<>>
    ELSE tl.tracks[posSeq[k]].clips \o ConcatClips(tl, posSeq, k + 1)

\* reading .name of an Effect object raises AttributeError
NameOrRaise(clip) ==
    IF IsEffect(clip) THEN [name |-> None, exc |-> "AttributeError"]
    ELSE [name |-> clip.name, exc |-> None]

\* CommandExecutor.resolve_clip_reference: [name, exc]; name = None for no match
resolve_clip_reference(tl, reference, reference_type, track_type, ordinal, ref_track_type) ==
    LET noMatch == [name |-> None, exc |-> None]
    IN  IF reference_type = "ordinal"
        THEN LET ttype == IF ref_track_type # None THEN ref_track_type ELSE track_type
                 all_clips == ConcatClips(tl, TrackPosSeq(tl, ttype), 1)
                 idx == OrdinalIndex(ordinal)
             IN  IF all_clips = <<>> THEN noMatch
                 ELSE IF idx # Nothing /\ 0 <= idx[1] /\ idx[1] < Len(all_clips)
                 THEN NameOrRaise(all_clips[idx[1] + 1])
                 ELSE noMatch
        ELSE LET all_clips == ConcatClips(tl, TrackPosSeq(tl, track_type), 1)
             IN  IF all_clips = <<>> THEN noMatch
                 ELSE IF reference_type = "positional"
                 THEN IF Lower(reference) = "last clip" THEN NameOrRaise(Last(all_clips))
                      ELSE IF Lower(reference) = "first clip" THEN NameOrRaise(all_clips[1])
                      ELSE noMatch
                 ELSE IF reference_type = "named"
                 THEN LET name == StripClipNamed(reference)
                          hits == {i \in DOMAIN all_clips :
                                      \/ IsEffect(all_clips[i])
                                      \/ Lower(all_clips[i].name) = Lower(name)}
                      IN  IF hits = {} THEN noMatch
                          ELSE NameOrRaise(all_clips[SetMin(hits)])
                 ELSE noMatch

RECURSIVE ScanTracks(_, _, _, _)
ScanTracks(tl, posSeq, k, clip_name) ==
    IF k > Len(posSeq) THEN [idx |-> Nothing, exc |-> None]
    ELSE LET clips == tl.tracks[posSeq[k]].clips
             hits == {i \in DOMAIN clips : IsEffect(clips[i]) \/ clips[i].name = clip_name}
         IN  IF hits = {} THEN ScanTracks(tl, posSeq, k + 1, clip_name)
             ELSE IF IsEffect(clips[SetMin(hits)])
             THEN [idx |-> Nothing, exc |-> "AttributeError"]
             ELSE [idx |-> Some(k - 1), exc |-> None]

\* CommandExecutor.find_track_index_for_clip: [idx, exc]; top-level clips only
find_track_index_for_clip(tl, clip_name, track_type) ==
    ScanTracks(tl, TrackPosSeq(tl, track_type), 1, clip_name)

(* ---------------------------------------------------------------------- *)
(* Operation handlers.  Each returns [S, success, message, exc].          *)
(* ---------------------------------------------------------------------- *)
HOk(S, success, message) == [S |-> S, success |-> success, message |-> message, exc |-> None]
HRaise(S, exc) == [S |-> S, success |-> FALSE, message |-> "", exc |-> exc]

Blank(x) == x = None \/ x = ""
MsPerSecond == 1000

\* CutOperationHandler.execute.  Times are compared in units of
\* 1/(frame_rate * 1000) second: a frame is 1000 units, a millisecond is
\* frame_rate units, and the 1e-3 s tolerance is frame_rate units.
CutOperationHandler(S, operation) ==
    LET tl == S.timeline
        p == operation.parameters
        clip_name == operation.target
        clip_id == p.clip_id
        track_type == GetOr(p.track_type, "video")
        found == find_track_index_for_clip(tl, clip_name, track_type)
        who == Either(clip_name, clip_id)
    IN  IF p.track_index = Nothing /\ found.exc # None THEN HRaise(S, found.exc)
        ELSE IF p.track_index = Nothing /\ found.idx = Nothing
        THEN HOk(S, FALSE, "Clip '" \o who \o "' not found in any " \o track_type \o " track.")
        ELSE IF (Blank(clip_name) /\ Blank(clip_id)) \/ p.start = Nothing \/ p.end = Nothing
        THEN HOk(S, FALSE, "Missing clip name/id or start/end for CUT operation.")
        ELSE
        LET track_index == IF p.track_index = Nothing THEN found.idx[1] ELSE p.track_index[1]
            pos == get_track(tl, track_type, track_index)
        IN  IF pos = 0 THEN HRaise(S, "IndexError")
            ELSE
            LET clips == tl.tracks[pos].clips
                path == _find_clip_recursive(clips, clip_name, clip_id)
            IN  IF path = <<>> THEN HOk(S, FALSE, "Clip '" \o who \o "' not found.")
                ELSE
                LET clip == ClipAt(clips, path)
                    parent == ParentAt(clips, path)
                    idx == path[Len(path)]
                    frame_rate == tl.frame_rate
                    clip_start_sec == clip.start * MsPerSecond
                    clip_end_sec == clip.end * MsPerSecond
                    start_sec == p.start[1] * frame_rate
                    end_sec == p.end[1] * frame_rate
                    cut_start == IF start_sec > clip_start_sec THEN start_sec ELSE clip_start_sec
                    cut_end == IF end_sec < clip_end_sec THEN end_sec ELSE clip_end_sec
                    frames(x) == RoundHalfEven(x, MsPerSecond)
                    first == VideoClip(clip.name \o "_part1", clip.start, frames(cut_start),
                                       clip.track_type, clip.file_path, Uuid(S.nid))
                    second == VideoClip(clip.name \o "_part2", frames(cut_end), clip.end,
                                        clip.track_type, clip.file_path, Uuid(S.nid + 1))
                    inPlace(c) == [S EXCEPT !.timeline = SetTrackClips(tl, pos,
                                      SetParent(clips, path, [parent EXCEPT ![idx] = c], FALSE))]
                IN  IF Abs(cut_start - clip_start_sec) < frame_rate /\ cut_end < clip_end_sec
                    THEN HOk(inPlace([clip EXCEPT !.start = frames(cut_end)]), TRUE,
                             "Trimmed start of '" \o clip.name \o "'.")
                    ELSE IF cut_start > clip_start_sec
                            /\ Abs(cut_end - clip_end_sec) < frame_rate
                    THEN HOk(inPlace([clip EXCEPT !.end = frames(cut_start)]), TRUE,
                             "Trimmed end of '" \o clip.name \o "'.")
                    ELSE IF cut_start > clip_start_sec /\ cut_end < clip_end_sec
                    THEN IF IsCompound(clip)
                         THEN HRaise(S, "AttributeError")   \* clip.file_path
                         ELSE HOk([S EXCEPT
                                     !.timeline = SetTrackClips(tl, pos,
                                         _update_ancestor_bounds(clips, path,
                                             InsertAt(InsertAt(RemoveAt(parent, idx), idx, second),
                                                      idx, first))),
                                     !.nid = @ + 2],
                                  TRUE, "Cut out segment from '" \o clip.name \o "', leaving a gap.")
                    ELSE HOk(S, FALSE, "Invalid cut/trim range for '" \o clip.name \o "'.")

\* TrimOperationHandler.execute: the timestamp parameter (frames) is handed
\* to Timeline.trim_clip as its timestamp argument.
TrimOperationHandler(S, operation) ==
    LET tl == S.timeline
        p == operation.parameters
        clip_name == operation.target
        clip_id == p.clip_id
        timestamp_frames == p.timestamp
        track_type == GetOr(p.track_type, "video")
        found == find_track_index_for_clip(tl, clip_name, track_type)
        who == Either(clip_name, clip_id)
    IN  IF (Blank(clip_name) /\ Blank(clip_id)) \/ timestamp_frames = Nothing
        THEN HOk(S, FALSE, "Missing clip name/id or timestamp for TRIM operation.")
        ELSE IF p.track_index = Nothing /\ found.exc # None THEN HRaise(S, found.exc)
        ELSE IF p.track_index = Nothing /\ found.idx = Nothing
        THEN HOk(S, FALSE, "Clip '" \o who \o "' not found in any " \o track_type \o " track.")
        ELSE
        LET track_index == IF p.track_index = Nothing THEN found.idx[1] ELSE p.track_index[1]
            r == trim_clip(tl, clip_name, timestamp_frames, track_type, track_index,
                           clip_id, S.nid)
        IN  IF r.exc # None THEN HRaise([S EXCEPT !.timeline = r.tl], r.exc)
            ELSE HOk([S EXCEPT !.timeline = r.tl, !.nid = r.nid], r.ret,
                     "Trimmed " \o who \o " at " \o ToString(timestamp_frames[1])
                     \o " frames: " \o ToString(r.ret))

JoinOperationHandler(S, operation) ==
    LET tl == S.timeline
        p == operation.parameters
        first_clip == operation.target
        second_clip == p.second
        first_clip_id == p.clip_id
        second_clip_id == p.second_clip_id
        track_type == GetOr(p.track_type, "video")
        found1 == find_track_index_for_clip(tl, first_clip, track_type)
        found2 == find_track_index_for_clip(tl, second_clip, track_type)
        found == IF found1.exc # None \/ found1.idx # Nothing THEN found1 ELSE found2
        who1 == Either(first_clip, first_clip_id)
        who2 == Either(second_clip, second_clip_id)
    IN  IF (Blank(first_clip) /\ Blank(first_clip_id))
           \/ (Blank(second_clip) /\ Blank(second_clip_id))
        THEN HOk(S, FALSE, "Missing one or both clip names/ids for JOIN operation.")
        ELSE IF p.track_index = Nothing /\ found.exc # None THEN HRaise(S, found.exc)
        ELSE IF p.track_index = Nothing /\ found.idx = Nothing
        THEN HOk(S, FALSE, "Neither '" \o who1 \o "' nor '" \o who2
                           \o "' found in any " \o track_type \o " track.")
        ELSE
        LET track_index == IF p.track_index = Nothing THEN found.idx[1] ELSE p.track_index[1]
            r == join_clips(tl, first_clip, second_clip, track_type, track_index,
                            first_clip_id, second_clip_id, S.nid)
            effect_msg == IF Blank(p.effect) THEN "" ELSE " with effect '" \o p.effect \o "'"
        IN  IF r.exc # None THEN HRaise([S EXCEPT !.timeline = r.tl], r.exc)
            ELSE HOk([S EXCEPT !.timeline = r.tl, !.nid = r.nid], r.ret,
                     "Joined " \o who1 \o " and " \o who2 \o effect_msg \o ": " \o ToString(r.ret))

AddTextOperationHandler(S, operation) ==
    HOk(S, TRUE, "Add text '" \o operation.parameters.text \o "'")

\* to_frame: int(float(val) * frame_rate), val in seconds
OverlayToFrame(val, frame_rate) ==
    IF val = Nothing THEN Nothing ELSE Some((val[1] * frame_rate) \div MsPerSecond)

OverlayOperationHandler(S, operation) ==
    LET tl == S.timeline
        p == operation.parameters
        effect == Effect("overlay", <<<<"asset", p.asset>>, <<"position", p.position>>>>,
                         OverlayToFrame(p.start, tl.frame_rate),
                         OverlayToFrame(p.end, tl.frame_rate))
        pos == get_track(tl, "effect", 0)
    IN  IF pos = 0 THEN HRaise(S, "IndexError")
        ELSE HOk([S EXCEPT !.timeline.tracks[pos].clips = Append(@, effect)], TRUE,
                 "Overlay " \o p.asset \o " at " \o p.position)

FadeOperationHandler(S, operation) ==
    HOk(S, TRUE, "Fade " \o operation.parameters.direction \o " " \o operation.parameters.target)

RemoveOperationHandler(S, operation) ==
    LET p == operation.parameters
        clip_name == operation.target
        track_type == GetOr(p.track_type, "video")
        track_index == IF p.track_index = Nothing THEN 0 ELSE p.track_index[1]
        r == remove_clip(S.timeline, clip_name, track_type, track_index, p.clip_id, S.nid)
        who == Either(clip_name, p.clip_id)
    IN  IF r.exc # None THEN HRaise([S EXCEPT !.timeline = r.tl], r.exc)
        ELSE IF r.ret
        THEN HOk([S EXCEPT !.timeline = r.tl], TRUE,
                 "Removed clip '" \o who \o "' from " \o track_type \o " track.")
        ELSE HOk(S, FALSE, "Clip '" \o who \o "' not found in " \o track_type \o " track.")

(* ---------------------------------------------------------------------- *)
(* CommandExecutor.execute and the group handler, which calls execute     *)
(* once per matching clip.  execute returns [S, success, message, exc,    *)
(* operation]; operation is the one handed to the handler and recorded.   *)
(* ---------------------------------------------------------------------- *)
ExecRet(S, success, message, operation) ==
    [S |-> S, success |-> success, message |-> message, exc |-> None, operation |-> operation]

ExecRaise(S, exc, operation) ==
    [S |-> S, success |-> FALSE, message |-> "", exc |-> exc, operation |-> operation]

\* the end of execute: the handler's outcome h is recorded with the
\* snapshots taken before and after it, unless the handler raised
Recorded(S, command_text, op, h) ==
    IF h.exc # None THEN ExecRaise(h.S, h.exc, op)
    ELSE ExecRet(add_entry(h.S, CommandHistoryEntry(command_text, op,
                                    ExecutionResult(h.success, h.message),
                                    S.timeline, h.S.timeline)),
                 h.success, h.message, op)

\* the reference resolution at the start of execute: [name, exc]
ResolveReference(S, operation) ==
    resolve_clip_reference(S.timeline, operation.target,
                           operation.parameters.reference_type,
                           GetOr(operation.parameters.track_type, "video"),
                           operation.parameters.ordinal,
                           operation.parameters.ref_track_type)

Resolving(operation) ==
    ~Blank(operation.parameters.reference_type) /\ ~Blank(operation.target)

\* the operation handed to the handlers
HandlerOperation(operation, resolved) ==
    IF Resolving(operation) /\ resolved.exc = None /\ ~Blank(resolved.name)
    THEN EditOperation(operation.type, resolved.name,
             [operation.parameters EXCEPT !.reference_type = None, !.ordinal = None,
                                          !.ref_track_type = None])
    ELSE operation

\* execute, given the resolution and the outcome h of the handler loop on
\* the operation op
Finish(S, operation, command_text, resolved, op, h) ==
    IF Resolving(operation) /\ resolved.exc # None THEN ExecRaise(S, resolved.exc, operation)
    ELSE IF Resolving(operation) /\ Blank(resolved.name)
    THEN Recorded(S, command_text, operation,
                  HOk(S, FALSE, "Could not resolve reference '" \o operation.target
                                \o "' for track type '"
                                \o GetOr(operation.parameters.track_type, "video") \o "'."))
    ELSE Recorded(S, command_text, op, h)

\* the registered handlers after the group handler, in registration order
LeafDispatch(S, operation) ==
    CASE operation.type = "CUT" -> CutOperationHandler(S, operation)
      [] operation.type = "TRIM" -> TrimOperationHandler(S, operation)
      [] operation.type = "JOIN" -> JoinOperationHandler(S, operation)
      [] operation.type = "ADD_TEXT" -> AddTextOperationHandler(S, operation)
      [] operation.type = "OVERLAY" -> OverlayOperationHandler(S, operation)
      [] operation.type = "FADE" -> FadeOperationHandler(S, operation)
      [] operation.type = "REMOVE" -> RemoveOperationHandler(S, operation)
      [] OTHER -> HOk(S, FALSE, "Unknown operation: " \o operation.type)

\* executor.execute(cut_op) as the group handler calls it: the operation is
\* a CUT, which the group handler's can_handle declines
ResolvedCut(S, operation, command_text, resolved) ==
    Finish(S, operation, command_text, resolved, HandlerOperation(operation, resolved),
           LeafDispatch(S, HandlerOperation(operation, resolved)))

execute_cut(S, operation, command_text) ==
    ResolvedCut(S, operation, command_text, ResolveReference(S, operation))

RECURSIVE GroupRun(_, _, _, _, _)
RECURSIVE GroupNext(_, _, _, _, _)

\* what the scan `clip.start < timestamp_frames < clip.end`, followed by
\* reading clip.name, does on an Effect object
EffectScan(e, timestamp_frames) ==
    IF e.estart = Nothing THEN "TypeError"
    ELSE IF ~(e.estart[1] < timestamp_frames) THEN "skip"
    ELSE IF e.eend = Nothing THEN "TypeError"
    ELSE IF timestamp_frames < e.eend[1] THEN "AttributeError"
    ELSE "skip"

\* all (clip name, relative track index) pairs whose clip contains the frame
GroupMatches(tl, track_type, timestamp_frames) ==
    LET posSeq == TrackPosSeq(tl, track_type)
        ofTrack(k) == LET clips == tl.tracks[posSeq[k]].clips
                          sel == SelectSeq(clips, LAMBDA c : /\ ~IsEffect(c)
                                                            /\ c.start < timestamp_frames
                                                            /\ timestamp_frames < c.end)
                      IN  [i \in 1..Len(sel) |-> <<sel[i].name, k - 1>>]
        RECURSIVE collect(_)
        collect(k) == IF k > Len(posSeq) THEN <<>> ELSE ofTrack(k) \o collect(k + 1)
    IN  collect(1)

\* the exception the scan raises on the first Effect object that raises one
GroupScanRaises(tl, track_type, timestamp_frames) ==
    LET all == ConcatClips(tl, TrackPosSeq(tl, track_type), 1)
        bad == {i \in DOMAIN all : IsEffect(all[i])
                                   /\ EffectScan(all[i], timestamp_frames) # "skip"}
    IN  IF bad = {} THEN None ELSE EffectScan(all[SetMin(bad)], timestamp_frames)

\* the CUT operation the group handler builds for a matching clip
GroupCutOp(name, operation) ==
    EditOperation("CUT", name[1],
        [NoParams EXCEPT !.timestamp = operation.parameters.timestamp,
                         !.track_type = GetOr(operation.parameters.track_type, "video"),
                         !.track_index = Some(name[2])])

\* the loop over all_clip_names: [S, results, exc]; GroupNext takes the
\* outcome r of the k-th execute and goes on with the next clip
GroupRun(S, names, k, operation, results) ==
    IF k > Len(names) THEN [S |-> S, results |-> results, exc |-> None]
    ELSE GroupNext(names, k, operation, results,
                   execute_cut(S, GroupCutOp(names[k], operation), None))

GroupNext(names, k, operation, results, r) ==
    IF r.exc # None THEN [S |-> r.S, results |-> results, exc |-> r.exc]
    ELSE GroupRun(r.S, names, k + 1, operation,
                  Append(results, <<names[k][1], r.success, r.message>>))

\* the summary of the results of the loop
GroupSummary(run) ==
    LET success_count == Cardinality({i \in DOMAIN run.results : run.results[i][2]})
    IN  IF run.exc # None THEN HRaise(run.S, run.exc)
        ELSE HOk(run.S, success_count = Len(run.results),
                 "Group CUT: " \o ToString(success_count) \o " succeeded, "
                 \o ToString(Len(run.results) - success_count) \o " failed. ")

\* the handler once the tracks are scanned: scan is the exception the scan
\* raised or None, all_clip_names the matching clips
GroupScanned(S, operation, scan, all_clip_names) ==
    IF scan # None THEN HRaise(S, scan)
    ELSE IF all_clip_names = <<>>
    THEN HOk(S, FALSE, "No clips found for track type '"
                       \o GetOr(operation.parameters.track_type, "video")
                       \o "' containing timestamp "
                       \o ToString(operation.parameters.timestamp[1]) \o ".")
    ELSE GroupSummary(GroupRun(S, all_clip_names, 1, operation, <<>>))

GroupCutOperationHandler(S, operation) ==
    LET p == operation.parameters
        track_type == GetOr(p.track_type, "video")
    IN  IF p.timestamp = Nothing \/ p.timestamp = Some(0)
        THEN HOk(S, FALSE, "Missing timestamp for group cut operation.")
        ELSE GroupScanned(S, operation,
                          GroupScanRaises(S.timeline, track_type, p.timestamp[1]),
                          GroupMatches(S.timeline, track_type, p.timestamp[1]))

\* the registered handlers, tried in registration order
Dispatch(S, operation) ==
    IF operation.type = "CUT_GROUP" THEN GroupCutOperationHandler(S, operation)
    ELSE LeafDispatch(S, operation)

Resolved(S, operation, command_text, resolved) ==
    Finish(S, operation, command_text, resolved, HandlerOperation(operation, resolved),
           Dispatch(S, HandlerOperation(operation, resolved)))

execute(S, operation, command_text) ==
    Resolved(S, operation, command_text, ResolveReference(S, operation))

(* ---------------------------------------------------------------------- *)
(* Inputs                                                                  *)
(* ---------------------------------------------------------------------- *)
MaxOps == 2

Clip(name, start_frame, end_frame, n) ==
    VideoClip(name, start_frame, end_frame, "video", name \o ".mp4", Uuid(n))

\* Timeline.add_clip of each clip in turn on track 0, from an empty timeline
RECURSIVE AddAll(_, _, _)
AddAll(tl, clips, k) ==
    IF k > Len(clips) THEN tl
    ELSE AddAll(add_clip(tl, clips[k], 0, Nothing, 0).tl, clips, k + 1)

FlatTimeline ==
    AddAll(Timeline(FRAME_RATE), <<Clip("clip1", 0, 60, 1), Clip("clip2", 60, 120, 2)>>, 1)

NestedTimeline ==
    LET inner == CompoundClip("inner", 60, 180, "video",
                              <<Clip("c2", 60, 120, 4), Clip("c3", 120, 180, 5)>>, Uuid(6))
        outer == CompoundClip("outer", 0, 180, "video",
                              <<Clip("c1", 0, 60, 3), inner>>, Uuid(7))
    IN  AddAll(Timeline(FRAME_RATE), <<outer>>, 1)

InitTimelines == {FlatTimeline, NestedTimeline}
FirstFreeId == 10

Op(type_, target, parameters) == EditOperation(type_, target, parameters)

\* The operations handed to execute(): for each handler one that succeeds
\* and the ways it fails.  Frames: clip1 = [0,60), clip2 = [60,120) in the
\* flat timeline; c1 = [0,60), c2 = [60,120), c3 = [120,180) nested.
ExecOps ==
    { Op("TRIM", "clip1", [NoParams EXCEPT !.timestamp = Some(1)]),
      Op("TRIM", "clip1", [NoParams EXCEPT !.timestamp = Some(30)]),
      Op("TRIM", "c2", [NoParams EXCEPT !.timestamp = Some(3), !.track_index = Some(0)]),
      Op("TRIM", None, [NoParams EXCEPT !.timestamp = Some(1)]),
      Op("TRIM", "it", [NoParams EXCEPT !.timestamp = Some(1),
                                        !.reference_type = "contextual"]),
      Op("CUT", "c1", [NoParams EXCEPT !.start = Some(0), !.end = Some(1000),
                                       !.track_index = Some(0)]),
      Op("CUT", "clip2", [NoParams EXCEPT !.start = Some(2500), !.end = Some(3500)]),
      Op("CUT", "clip1", [NoParams EXCEPT !.start = Some(0), !.end = Some(2000)]),
      Op("CUT", "clip1", [NoParams EXCEPT !.timestamp = Some(30)]),
      Op("CUT", "clip2", [NoParams EXCEPT !.start = Some(0), !.end = Some(1000)]),
      Op("CUT", "clip1", [NoParams EXCEPT !.start = Some(3000), !.end = Some(3500)]),
      Op("CUT", "clip1", [NoParams EXCEPT !.start = Some(1000), !.end = Some(1000)]),
      Op("CUT", "clip1", [NoParams EXCEPT !.start = Some(0), !.end = Some(1990)]),
      Op("JOIN", "clip1", [NoParams EXCEPT !.second = "clip2"]),
      Op("JOIN", "clip1_part1", [NoParams EXCEPT !.second = "clip1_part2"]),
      Op("JOIN", "clip2_part1", [NoParams EXCEPT !.second = "clip2_part2"]),
      Op("REMOVE", "clip2", NoParams),
      Op("REMOVE", "clip1", [NoParams EXCEPT !.track_type = "bogus"]),
      Op("REMOVE", "last clip", [NoParams EXCEPT !.reference_type = "positional"]),
      Op("REMOVE", "clip named nosuch", [NoParams EXCEPT !.reference_type = "named",
                                                         !.track_type = "effect"]),
      Op("REMOVE", "clip", [NoParams EXCEPT !.reference_type = "ordinal", !.ordinal = "tenth"]),
      Op("OVERLAY", None, [NoParams EXCEPT !.asset = "logo.png", !.position = "top right",
                                           !.start = Some(1000), !.end = Some(2000)]),
      Op("ADD_TEXT", None, [NoParams EXCEPT !.text = "Intro"]),
      Op("CUT_GROUP", None, [NoParams EXCEPT !.timestamp = Some(30)]),
      Op("UNKNOWN", None, [NoParams EXCEPT !.raw = "Make it sparkle!"]) }

(* ---------------------------------------------------------------------- *)
(* The executor as a state machine                                         *)
(* ---------------------------------------------------------------------- *)
State == [timeline |-> timeline, entries |-> entries, undo_stack |-> undo_stack,
          nid |-> nextId]

NoCall == [call |-> "init", op |-> Op("", None, NoParams), ok |-> FALSE,
           exc |-> None, message |-> ""]

\* History of the run, kept for stating the properties:
\*   base, n, u, all_true: the timeline before the first of the current run
\*     of n successful execute() calls, the number u of undo() calls made
\*     since, and whether each of them returned True;
\*   peak_timeline, peak_entries: timeline and log after the latest
\*     execute() that returned.
GhostInit(tl) ==
    [calls |-> 0, base |-> tl, n |-> 0, u |-> 0, all_true |-> TRUE,
     peak_timeline |-> tl, peak_entries |-> <<>>,
     hook |-> 0, edits |-> 0, seen |-> Nothing, arg |-> Nothing]

Init ==
    /\ timeline \in InitTimelines
    /\ entries = <<>>
    /\ undo_stack = <<>>
    /\ nextId = FirstFreeId
    /\ last = NoCall
    /\ ghost = GhostInit(timeline)

\* the outcome r of execute(op) becomes the next state
Executed(op, r) ==
    LET ok == r.exc = None /\ r.success
    IN  /\ timeline' = r.S.timeline
        /\ entries' = r.S.entries
        /\ undo_stack' = r.S.undo_stack
        /\ nextId' = r.S.nid
        /\ last' = [call |-> "execute", op |-> op, ok |-> r.success,
                    exc |-> r.exc, message |-> r.message]
        /\ ghost' = [calls |-> ghost.calls + 1,
                     base |-> IF ok /\ ghost.u = 0 /\ ghost.n > 0 THEN ghost.base
                              ELSE IF ok THEN timeline ELSE r.S.timeline,
                     n |-> IF ok /\ ghost.u = 0 THEN ghost.n + 1
                           ELSE IF ok THEN 1 ELSE 0,
                     u |-> 0,
                     all_true |-> TRUE,
                     peak_timeline |-> IF r.exc = None THEN r.S.timeline
                                       ELSE ghost.peak_timeline,
                     peak_entries |-> IF r.exc = None THEN r.S.entries
                                      ELSE ghost.peak_entries,
                     hook |-> ghost.hook, edits |-> ghost.edits,
                     seen |-> ghost.seen, arg |-> ghost.arg]

Execute(op) ==
    /\ ghost.calls < MaxOps
    /\ Executed(op, execute(State, op, op.type))

\* the outcome r of undo() becomes the next state
Undone(r) ==
    /\ timeline' = r.S.timeline
    /\ entries' = r.S.entries
    /\ undo_stack' = r.S.undo_stack
    /\ nextId' = r.S.nid
    /\ last' = [NoCall EXCEPT !.call = "undo", !.ok = r.ret]
    /\ ghost' = IF ghost.n > 0 /\ ghost.u < ghost.n
                 THEN [ghost EXCEPT !.u = @ + 1, !.all_true = @ /\ r.ret]
                 ELSE [ghost EXCEPT !.n = 0, !.u = 0, !.all_true = TRUE,
                                    !.base = r.S.timeline]

Undo == Undone(undo(State))

\* the outcome r of redo() becomes the next state
Redone(r) ==
    /\ timeline' = r.S.timeline
    /\ entries' = r.S.entries
    /\ undo_stack' = r.S.undo_stack
    /\ nextId' = r.S.nid
    /\ last' = [NoCall EXCEPT !.call = "redo", !.ok = r.ret]
    /\ ghost' = [ghost EXCEPT !.n = 0, !.u = 0, !.all_true = TRUE,
                              !.base = r.S.timeline]

Redo == Redone(redo(State))

Next ==
    \/ \E op \in ExecOps : Execute(op)
    \/ Undo
    \/ Redo

Spec == Init /\ [][Next]_vars

(* ---------------------------------------------------------------------- *)
(* Properties of the executor and its history (specification Spec)        *)
(* ---------------------------------------------------------------------- *)
Reverse(s) == [i \in 1..Len(s) |-> s[Len(s) + 1 - i]]

\* name and frame bounds of each clip of a list
Bounds(clips) == [i \in DOMAIN clips |-> <<clips[i].name, clips[i].start, clips[i].end>>]

VideoClips(tl) == tl.tracks[get_track(tl, "video", 0)].clips

\* C1: after a run of N >= 1 successful execute() calls with no undo in
\* between, each of the following undo() calls returns True and the N-th
\* leaves executor.timeline equal to the timeline before the first execute().
C1_UndoAllRestoresStart ==
    /\ (ghost.n >= 1 /\ ghost.u >= 1) => ghost.all_true
    /\ (ghost.n >= 1 /\ ghost.u = ghost.n) => timeline = ghost.base

\* two mutating commands undone to the start
C1_Witness ==
    /\ ghost.n = 2 /\ ghost.u = 2
    /\ Len(undo_stack) = 2
    /\ undo_stack[1].after_snapshot # undo_stack[2].after_snapshot
    /\ undo_stack[2].after_snapshot # timeline

\* C2: undo() followed by redo() is the identity: the log followed by the
\* reversed redo buffer is always the log as the latest execute() left it,
\* with every redo buffer entry redone the timeline is again the one that
\* execute() left, each undo() moves exactly the last log entry to the redo
\* buffer and each redo() moves exactly the last redo buffer entry back.
C2_UndoRedoInverse ==
    /\ [](/\ entries \o Reverse(undo_stack) = ghost.peak_entries
          /\ (undo_stack = <<>> => timeline = ghost.peak_timeline))
    /\ [][/\ (last'.call = "undo" /\ entries # <<>>) =>
                 /\ last'.ok
                 /\ entries' = Front(entries)
                 /\ undo_stack' = Append(undo_stack, Last(entries))
          /\ (last'.call = "redo" /\ undo_stack # <<>>) =>
                 /\ last'.ok
                 /\ undo_stack' = Front(undo_stack)
                 /\ entries' = Append(entries, Last(undo_stack))]_vars

\* two commands undone and redone, back at a timeline that differs from the start
C2_Witness ==
    /\ last.call = "redo" /\ last.ok
    /\ undo_stack = <<>>
    /\ Len(entries) = 2
    /\ timeline = ghost.peak_timeline
    /\ timeline # entries[1].before_snapshot
    /\ timeline # entries[2].before_snapshot

\* C3: every execute() call empties the redo buffer, so that a redo() right
\* after it returns False and changes nothing; undo() on an empty log and
\* redo() on an empty redo buffer return False and change nothing.
C3_ExecuteClearsRedo ==
    /\ [](last.call = "execute" => undo_stack = <<>>)
    /\ [][/\ (last'.call = "redo" /\ last.call = "execute") =>
                 (~last'.ok /\ timeline' = timeline /\ entries' = entries)
          /\ (last'.call = "redo" /\ undo_stack = <<>>) =>
                 (~last'.ok /\ timeline' = timeline /\ entries' = entries
                  /\ undo_stack' = undo_stack)
          /\ (last'.call = "undo" /\ entries = <<>>) =>
                 (~last'.ok /\ timeline' = timeline /\ entries' = entries
                  /\ undo_stack' = undo_stack)]_vars

\* C6: a CUT with parameters {timestamp: F} whose target is a top-level
\* video clip [s,e) with s < F < e succeeds and replaces that clip by
\* X_part1 = [s,F) and X_part2 = [F,e), leaving the other clips unchanged.
C6_CutAtTimestampSplits ==
    [][\A i \in DOMAIN VideoClips(timeline) :
          LET X == VideoClips(timeline)[i]
              F == last'.op.parameters.timestamp
          IN  (/\ last'.call = "execute"
               /\ last'.op.type = "CUT"
               /\ last'.op.target = X.name
               /\ F # Nothing
               /\ X.start < F[1] /\ F[1] < X.end)
              => /\ last'.ok
                 /\ Bounds(VideoClips(timeline')) =
                       SubSeq(Bounds(VideoClips(timeline)), 1, i - 1)
                       \o << <<X.name \o "_part1", X.start, F[1]>>,
                             <<X.name \o "_part2", F[1], X.end>> >>
                       \o SubSeq(Bounds(VideoClips(timeline)), i + 1,
                                 Len(VideoClips(timeline)))]_vars

\* C9: an execute() call that returns a failed result appends one entry
\* carrying that result, after the entries of the execute() calls it made
\* itself; for a single-clip failure nothing else is appended, the entry's
\* snapshots are equal and the live timeline is unchanged.
C9_FailureIsRecorded ==
    [][(last'.call = "execute" /\ last'.exc = None /\ ~last'.ok) =>
          /\ Len(entries') > Len(entries)
          /\ SubSeq(entries', 1, Len(entries)) = entries
          /\ Last(entries').result = ExecutionResult(FALSE, last'.message)
          /\ \A i \in (Len(entries) + 1)..(Len(entries') - 1) :
                entries'[i].operation.type = "CUT"
          /\ last'.op.type # "CUT_GROUP" =>
                /\ Len(entries') = Len(entries) + 1
                /\ Last(entries').before_snapshot = Last(entries').after_snapshot
                /\ Last(entries').before_snapshot = timeline
                /\ timeline' = timeline]_vars

\* a failed single-clip command recorded after a command that changed the timeline
C9_Witness ==
    /\ last.call = "execute" /\ last.exc = None /\ ~last.ok
    /\ last.op.type = "JOIN"
    /\ Len(entries) = 2
    /\ entries[1].result.success
    /\ entries[1].before_snapshot # entries[1].after_snapshot
    /\ entries[2].before_snapshot = timeline

\* C10: execute() never raises; every failure comes back as a result with
\* success = false and a message.
C10_ExecuteNeverRaises ==
    last.call = "execute" =>
        /\ last.exc = None
        /\ (~last.ok => last.message # "")

(* ---------------------------------------------------------------------- *)
(* The Timeline API called directly (specification SpecTL)                 *)
(* ---------------------------------------------------------------------- *)
MaxCalls == 2

\* a[0,60) b[60,120) c[120,180)
TLFlat ==
    AddAll(Timeline(FRAME_RATE),
           <<Clip("a", 0, 60, 1), Clip("b", 0, 60, 2), Clip("c", 0, 60, 3)>>, 1)

\* g{ x[0,60) h{ y[60,120) z[120,180) } } b[180,240)
TLNested ==
    LET h == CompoundClip("h", 60, 180, "video",
                          <<Clip("y", 60, 120, 5), Clip("z", 120, 180, 6)>>, Uuid(7))
        g == CompoundClip("g", 0, 180, "video", <<Clip("x", 0, 60, 4), h>>, Uuid(8))
    IN  AddAll(Timeline(FRAME_RATE), <<g, Clip("b", 0, 60, 9)>>, 1)

TLTimelines == {Timeline(FRAME_RATE), TLFlat, TLNested}

InitTL ==
    /\ timeline \in TLTimelines
    /\ entries = <<>>
    /\ undo_stack = <<>>
    /\ nextId = FirstFreeId
    /\ last = NoCall
    /\ ghost = GhostInit(timeline)

\* the outcome r of a Timeline method becomes the next state
Called(call, target, parameters, r) ==
    /\ ghost.calls < MaxCalls
    /\ timeline' = r.tl
    /\ nextId' = r.nid
    /\ last' = [call |-> call, op |-> Op(call, target, parameters), ok |-> r.ret,
                exc |-> r.exc, message |-> ""]
    /\ ghost' = [ghost EXCEPT !.calls = @ + 1,
                               !.hook = @ + r.notified,
                               !.edits = IF r.exc = None /\ r.ret THEN @ + 1 ELSE @,
                               !.seen = IF r.notified > 0 THEN r.seen ELSE @,
                               !.arg = IF "clip" \in DOMAIN r THEN Some(r.clip) ELSE Nothing]
    /\ UNCHANGED <<entries, undo_stack>>

NewClips ==
    [leaf |-> Clip("n", 0, 60, nextId),
     compound |-> CompoundClip("k", 0, 120, "video",
                               <<Clip("p", 0, 60, nextId), Clip("q", 60, 120, nextId + 1)>>,
                               Uuid(nextId + 2))]

TLAddClip(kind, position) ==
    Called("add_clip", NewClips[kind].name, [NoParams EXCEPT !.start = position],
           add_clip(timeline, NewClips[kind], 0, position, nextId + 3))

TLLoadVideo(file_path, position) ==
    Called("load_video", BaseName[file_path], [NoParams EXCEPT !.start = position],
           load_video(timeline, file_path, 0, position, Nothing, nextId))

TLAddTrack(track_type, index) ==
    Called("add_track", "extra", [NoParams EXCEPT !.track_type = track_type, !.track_index = index],
           add_track(timeline, "extra", track_type, index, nextId))

TLRemoveTrack(index, track_type) ==
    Called("remove_track", None, [NoParams EXCEPT !.track_type = track_type, !.track_index = index],
           remove_track(timeline, index, track_type, 0, nextId))

TLTrimClip(name, T) ==
    Called("trim_clip", name, [NoParams EXCEPT !.timestamp = Some(T)],
           trim_clip(timeline, name, Some(T), "video", 0, None, nextId))

TLJoinClips(a, b) ==
    Called("join_clips", a, [NoParams EXCEPT !.second = b],
           join_clips(timeline, a, b, "video", 0, None, None, nextId))

TLRemoveClip(name) ==
    Called("remove_clip", name, NoParams,
           remove_clip(timeline, name, "video", 0, None, nextId))

TLRemoveClipByIndex(k) ==
    Called("remove_clip_by_index", None, [NoParams EXCEPT !.track_index = Some(k)],
           remove_clip_by_index(timeline, k, "video", 0, nextId))

TLMoveClip(name, dest_track_type, position) ==
    Called("move_clip", name,
           [NoParams EXCEPT !.track_type = dest_track_type, !.start = position],
           move_clip(timeline, name, "video", 0, dest_track_type, 0, position, None, nextId))

TLAddTransition(a, b, transition_type) ==
    Called("add_transition", a, [NoParams EXCEPT !.second = b, !.effect = transition_type],
           add_transition(timeline, a, b, transition_type, 1, "video", 0, None, None, nextId))

TrimNames == {"a", "x", "y", "g", "nosuch"}
TrimTimes == {1, 3, 30}
JoinPairs == {<<"a", "b">>, <<"b", "a">>, <<"a", "c">>, <<"a_part1", "a_part2">>,
              <<"x", "h">>, <<"y", "z">>, <<"x", "y">>, <<"g", "b">>, <<"nosuch", "b">>}
TransitionTypes == {"crossfade", "wipe"}
RemoveNames == {"b", "y", "nosuch"}
RemoveIndexes == {-1, 0, 1, 3, 5}
MoveNames == {"a", "y", "g"}
MoveTracks == {"audio", "video", "bogus"}
Positions == {Nothing, Some(60)}
TrackIndexes == {Nothing, Some(0)}

NextTL ==
    \/ \E kind \in {"leaf", "compound"}, position \in Positions : TLAddClip(kind, position)
    \/ \E name \in TrimNames, T \in TrimTimes : TLTrimClip(name, T)
    \/ \E pair \in JoinPairs : TLJoinClips(pair[1], pair[2])
    \/ \E name \in RemoveNames : TLRemoveClip(name)
    \/ \E k \in RemoveIndexes : TLRemoveClipByIndex(k)
    \/ \E name \in MoveNames, t \in MoveTracks, position \in Positions :
          TLMoveClip(name, t, position)
    \/ \E pair \in JoinPairs, transition_type \in TransitionTypes :
          TLAddTransition(pair[1], pair[2], transition_type)
    \/ \E position \in Positions : TLLoadVideo("media/intro.mp4", position)
    \/ \E t \in {"video", "bogus"}, index \in TrackIndexes : TLAddTrack(t, index)
    \/ \E index \in TrackIndexes \cup {Some(9)}, t \in {None, "audio", "subtitle"} :
          TLRemoveTrack(index, t)

SpecTL == InitTL /\ [][NextTL]_vars

(* ---------------------------------------------------------------------- *)
(* Track.add_clip through Timeline.add_clip on track 0                     *)
(* ---------------------------------------------------------------------- *)
\* the clip object handed to the add_clip call that produced last'
AddedClip == IF last'.op.target = "k" THEN NewClips.compound ELSE NewClips.leaf

Moved(clip, s) == [clip EXCEPT !.start = s, !.end = s + (clip.end - clip.start)]

AddClipStep(clips, clip, position) ==
    LET last_end == IF clips = <<>> THEN 0 ELSE Last(clips).end
    IN  /\ position = Nothing =>
              /\ last'.exc = None
              /\ timeline'.tracks[1].clips = Append(clips, Moved(clip, last_end))
              /\ ghost'.arg = Some(Moved(clip, last_end))
        /\ (position # Nothing /\ clips # <<>> /\ position[1] # last_end) =>
              /\ last'.exc = "ValueError"
              /\ timeline' = timeline
              /\ ghost'.arg = Some(clip)

\* C11: without a position the added clip starts where the track's last clip
\* ends (0 on an empty track) and keeps its duration; with a position other
\* than the last clip's end the call raises ValueError and neither the
\* track's clip list nor the rejected clip's bounds change.
C11_AddClipAppendsOrRejects ==
    [][(last'.call = "add_clip" /\ timeline.tracks # <<>>) =>
           AddClipStep(timeline.tracks[1].clips, AddedClip, last'.op.parameters.start)]_vars

C11_Witness ==
    /\ last.call = "add_clip" /\ last.exc = None /\ last.op.parameters.start = Nothing
    /\ ghost.arg # Nothing /\ ghost.arg[1].start > 0
    /\ Last(timeline.tracks[1].clips) = ghost.arg[1]

(* ---------------------------------------------------------------------- *)
(* The on_change hook                                                      *)
(* ---------------------------------------------------------------------- *)
Succeeded == last'.exc = None /\ last'.ok

\* C12: a mutating Timeline call invokes the on_change hook exactly once when
\* it succeeds, with the mutation already in the timeline the hook is handed,
\* and not at all when it returns False or raises; after k successful edits
\* the hook has been called k times.
C12_HookOncePerEdit ==
    [][/\ ghost'.hook = ghost.hook + (IF Succeeded THEN 1 ELSE 0)
       /\ Succeeded => ghost'.seen = Some(timeline')
       /\ ~Succeeded => ghost'.seen = ghost.seen
       /\ ghost'.hook = ghost'.edits]_vars

C12_Witness ==
    /\ ghost.calls = 2 /\ ghost.hook = 1 /\ ghost.edits = 1
    /\ last.call = "move_clip" /\ last.exc # None
    /\ ghost.seen # Some(timeline)

(* ---------------------------------------------------------------------- *)
(* Properties of the Timeline API (specification SpecTL)                   *)
(* ---------------------------------------------------------------------- *)
\* every compound clip with children spans exactly its children, at every depth
RECURSIVE SpansChildren(_)
SpansChildren(clips) ==
    \A i \in DOMAIN clips :
        (IsCompound(clips[i]) /\ clips[i].clips # <<>>) =>
            /\ clips[i].start = SetMin({clips[i].clips[j].start : j \in DOMAIN clips[i].clips})
            /\ clips[i].end = SetMax({clips[i].clips[j].end : j \in DOMAIN clips[i].clips})
            /\ SpansChildren(clips[i].clips)

\* C4: after every structural edit each CompoundClip with at least one
\* child has start = min(child.start) and end = max(child.end), and so do
\* all its ancestors.
C4_CompoundBounds ==
    \A t \in DOMAIN timeline.tracks : SpansChildren(timeline.tracks[t].clips)

\* path of the first clip of the name in depth-first order, <<>> if none
FirstNamed(clips, name) ==
    LET paths == flatten_clips(clips, 1, <<>>)
        hits == {k \in DOMAIN paths : ClipAt(clips, paths[k]).name = name}
    IN  IF hits = {} THEN <<>> ELSE paths[SetMin(hits)]

\* the list `after` is the list `before` with the elements i..i+n-1
\* replaced by clips of the given names and bounds
Replaced(before, after, i, n, parts) ==
    /\ Len(after) = Len(before) - n + Len(parts)
    /\ \A j \in 1..(i - 1) : after[j] = before[j]
    /\ \A j \in DOMAIN parts : <<after[i + j - 1].name, after[i + j - 1].start,
                                 after[i + j - 1].end>> = parts[j]
    /\ \A j \in (i + n)..Len(before) : after[j - n + Len(parts)] = before[j]

\* C5: trim_clip at frame T on a clip [start,end) with start < T < end
\* replaces it in place by {name}_part1 = [start,T) and {name}_part2 =
\* [T,end) and returns True; otherwise it returns False and the timeline
\* is unchanged.
C5_TrimSplitsAtFrame ==
    [][(last'.call = "trim_clip" /\ last'.exc = None) =>
          LET clips == VideoClips(timeline)
              path == FirstNamed(clips, last'.op.target)
              T == last'.op.parameters.timestamp[1]
          IN  IF path # <<>> /\ ClipAt(clips, path).start < T /\ T < ClipAt(clips, path).end
              THEN LET X == ClipAt(clips, path)
                   IN  /\ last'.ok
                       /\ Replaced(ParentAt(clips, path),
                                   ParentAt(VideoClips(timeline'), path),
                                   Last(path), 1,
                                   << <<X.name \o "_part1", X.start, T>>,
                                      <<X.name \o "_part2", T, X.end>> >>)
              ELSE ~last'.ok /\ timeline' = timeline]_vars

\* C7: join_clips(a, b) returns True exactly when b is the element right
\* after a in a's owning container and a.end = b.start; the two are then
\* replaced in place by one clip {a}_joined_{b} with bounds [a.start,
\* b.end] and nothing else changes; when it returns False the timeline is
\* unchanged.
C7_JoinAdjacent ==
    [][(last'.call = "join_clips" /\ last'.exc = None) =>
          LET clips == VideoClips(timeline)
              a == last'.op.target
              b == last'.op.parameters.second
              path == FirstNamed(clips, a)
              parent == ParentAt(clips, path)
              i == Last(path)
              joinable == /\ path # <<>>
                          /\ i + 1 <= Len(parent)
                          /\ parent[i + 1].name = b
                          /\ parent[i].end = parent[i + 1].start
          IN  /\ last'.ok = joinable
              /\ IF joinable
                 THEN /\ Replaced(parent, ParentAt(VideoClips(timeline'), path), i, 2,
                                  << <<a \o "_joined_" \o b, parent[i].start,
                                       parent[i + 1].end>> >>)
                      /\ timeline'.transitions = timeline.transitions
                      /\ \A t \in DOMAIN timeline.tracks :
                            t # get_track(timeline, "video", 0) =>
                                timeline'.tracks[t] = timeline.tracks[t]
                 ELSE timeline' = timeline]_vars

\* the two halves of a trimmed clip joined again
C7_Witness ==
    /\ last.call = "join_clips" /\ last.ok
    /\ last.op.target = "a_part1"
    /\ Bounds(VideoClips(timeline)) =
          << <<"a_part1_joined_a_part2", 0, 60>>, <<"b", 60, 120>>, <<"c", 120, 180>> >>

\* C19: add_transition(a, b) returns True and appends exactly one
\* Transition(a, b, type, duration) exactly when b is the element right after
\* a in a's owning container and a.end = b.start; in both outcomes the tracks
\* and their clips are unchanged, and on failure the transitions are unchanged.
C19_TransitionAdjacent ==
    [][(last'.call = "add_transition" /\ last'.exc = None) =>
          LET clips == VideoClips(timeline)
              a == last'.op.target
              b == last'.op.parameters.second
              path == FirstNamed(clips, a)
              parent == ParentAt(clips, path)
              i == Last(path)
              adjacent == /\ path # <<>>
                          /\ i + 1 <= Len(parent)
                          /\ parent[i + 1].name = b
                          /\ parent[i].end = parent[i + 1].start
          IN  /\ last'.ok = adjacent
              /\ timeline'.tracks = timeline.tracks
              /\ timeline'.transitions =
                     IF adjacent
                     THEN Append(timeline.transitions,
                                 Transition(a, b, last'.op.parameters.effect, 1))
                     ELSE timeline.transitions]_vars

\* a transition between two clips nested in a compound clip
C19_Witness ==
    /\ last.call = "add_transition" /\ last.ok
    /\ Len(FirstNamed(VideoClips(timeline), last.op.target)) > 1
    /\ Len(timeline.transitions) = 1
    /\ timeline.transitions[1].to_clip = last.op.parameters.second

\* the index given to the remove_clip_by_index call that led to the next state
RemovedIndex == last'.op.parameters.track_index[1]
\* the track's clips with the subtree at path taken out and nothing else touched
WithoutSubtree(clips, path) ==
    SetParent(clips, path, RemoveAt(ParentAt(clips, path), Last(path)), FALSE)

\* C20 as stated: remove_clip_by_index(k) removes exactly the k-th clip of the
\* depth-first pre-order flattening of the track, with its subtree, and
\* returns True; for k < 0 or k >= the flattened length it returns False
\* and changes nothing; every other clip keeps its identity, bounds and
\* relative order.
C20_RemoveByIndexKeepsBounds ==
    [][(last'.call = "remove_clip_by_index" /\ last'.exc = None) =>
          IF 0 <= RemovedIndex /\ RemovedIndex < Len(flatten_clips(VideoClips(timeline), 1, <<>>))
          THEN /\ last'.ok
               /\ VideoClips(timeline') =
                      WithoutSubtree(VideoClips(timeline),
                                     flatten_clips(VideoClips(timeline), 1, <<>>)[RemovedIndex + 1])
          ELSE ~last'.ok /\ timeline' = timeline]_vars

\* after equals expected except that each compound clip on the path has the
\* bounds of its remaining children (its own when none remain)
RECURSIVE SameButAncestorBounds(_, _, _)
SameButAncestorBounds(expected, after, path) ==
    /\ Len(after) = Len(expected)
    /\ \A i \in DOMAIN expected :
          IF Len(path) > 1 /\ i = Head(path)
          THEN /\ [after[i] EXCEPT !.start = expected[i].start, !.end = expected[i].end,
                                   !.clips = expected[i].clips] = expected[i]
               /\ SameButAncestorBounds(expected[i].clips, after[i].clips, Tail(path))
               /\ IF after[i].clips # <<>>
                  THEN /\ \A c \in DOMAIN after[i].clips :
                             /\ after[i].start <= after[i].clips[c].start
                             /\ after[i].clips[c].end <= after[i].end
                       /\ \E c \in DOMAIN after[i].clips : after[i].start = after[i].clips[c].start
                       /\ \E c \in DOMAIN after[i].clips : after[i].end = after[i].clips[c].end
                  ELSE after[i].start = expected[i].start /\ after[i].end = expected[i].end
          ELSE after[i] = expected[i]

\* C20, amended: as above, except that the compound clips that contain the
\* removed clip have their bounds recalculated to span their remaining
\* children; every other clip keeps its identity, bounds and relative order.
C20_RemoveByIndex ==
    [][(last'.call = "remove_clip_by_index" /\ last'.exc = None) =>
          IF 0 <= RemovedIndex /\ RemovedIndex < Len(flatten_clips(VideoClips(timeline), 1, <<>>))
          THEN /\ last'.ok
               /\ SameButAncestorBounds(
                      WithoutSubtree(VideoClips(timeline),
                                     flatten_clips(VideoClips(timeline), 1, <<>>)[RemovedIndex + 1]),
                      VideoClips(timeline'),
                      flatten_clips(VideoClips(timeline), 1, <<>>)[RemovedIndex + 1])
               /\ timeline'.transitions = timeline.transitions
               /\ \A t \in DOMAIN timeline.tracks :
                     t # get_track(timeline, "video", 0) => timeline'.tracks[t] = timeline.tracks[t]
          ELSE ~last'.ok /\ timeline' = timeline]_vars

\* index 3 of g{ x h{ y z } } b removed y, and h now starts where z starts
C20_Witness ==
    /\ last.call = "remove_clip_by_index" /\ last.ok
    /\ last.op.parameters.track_index = Some(3)
    /\ Bounds(VideoClips(timeline)) = << <<"g", 0, 180>>, <<"b", 180, 240>> >>
    /\ Bounds(VideoClips(timeline)[1].clips) = << <<"x", 0, 60>>, <<"h", 120, 180>> >>
    /\ Bounds(VideoClips(timeline)[1].clips[2].clips) = << <<"z", 120, 180>> >>

(* ---------------------------------------------------------------------- *)
(* Serialization (specification SpecRT)                                    *)
(* ---------------------------------------------------------------------- *)
\* A dict is a function from its keys; data.get(key) of an absent key is None.
HasKey(d, k) == k \in DOMAIN d
GetOpt(d, k) == IF HasKey(d, k) THEN Some(d[k]) ELSE Nothing

Effect_to_dict(e) ==
    [_type |-> "Effect", effect_type |-> e.effect_type, params |-> e.params]
    @@ (IF e.estart # Nothing THEN "start" :> e.estart[1] ELSE <<>>)
    @@ (IF e.eend # Nothing THEN "end" :> e.eend[1] ELSE <<>>)

Effect_from_dict(data) ==
    Effect(data.effect_type, data.params, GetOpt(data, "start"), GetOpt(data, "end"))

\* VideoClip.to_dict and CompoundClip.to_dict, and Effect.to_dict for an
\* Effect that sits on a track
RECURSIVE clip_to_dict(_)
clip_to_dict(c) ==
    IF IsEffect(c) THEN Effect_to_dict(c)
    ELSE IF IsCompound(c)
    THEN [_type |-> "CompoundClip", clip_id |-> c.clip_id, name |-> c.name,
          start |-> c.start, end |-> c.end, track_type |-> c.track_type,
          effects |-> [i \in DOMAIN c.effects |-> Effect_to_dict(c.effects[i])],
          clips |-> [i \in DOMAIN c.clips |-> clip_to_dict(c.clips[i])]]
    ELSE [_type |-> "VideoClip", clip_id |-> c.clip_id, name |-> c.name,
          start |-> RoundHalfEven(c.start, 1), end |-> RoundHalfEven(c.end, 1),
          track_type |-> c.track_type,
          effects |-> [i \in DOMAIN c.effects |-> Effect_to_dict(c.effects[i])],
          file_path |-> c.file_path]

\* the frame rate VideoClip.from_dict uses when the dict carries none
CLIP_DICT_FRAME_RATE == 30
\* an end below this is taken to be in seconds
SECONDS_THRESHOLD == 1000

\* cls.from_dict(c) with cls looked up from c["_type"]
RECURSIVE clip_from_dict(_)
clip_from_dict(data) ==
    IF data._type = "Effect" THEN Effect_from_dict(data)
    ELSE IF data._type = "CompoundClip"
    THEN [CompoundClip(data.name, data.start, data.end, data.track_type,
                       [i \in DOMAIN data.clips |-> clip_from_dict(data.clips[i])],
                       data.clip_id)
             EXCEPT !.effects = [i \in DOMAIN data.effects |->
                                    Effect_from_dict(data.effects[i])]]
    ELSE LET frame_rate == IF HasKey(data, "frame_rate") THEN data.frame_rate
                           ELSE CLIP_DICT_FRAME_RATE
             seconds == data.end < SECONDS_THRESHOLD
             start == IF seconds THEN RoundHalfEven(data.start * frame_rate, 1)
                      ELSE data.start
             end == IF seconds THEN RoundHalfEven(data.end * frame_rate, 1)
                    ELSE data.end
         IN  [VideoClip(data.name, start, end, data.track_type, data.file_path,
                        data.clip_id)
                 EXCEPT !.effects = [i \in DOMAIN data.effects |->
                                        Effect_from_dict(data.effects[i])]]

Track_to_dict(t) ==
    [_type |-> "Track", name |-> t.name, track_type |-> t.track_type,
     clips |-> [i \in DOMAIN t.clips |-> clip_to_dict(t.clips[i])]]

Track_from_dict(data) ==
    [Track(data.name, data.track_type)
        EXCEPT !.clips = [i \in DOMAIN data.clips |-> clip_from_dict(data.clips[i])]]

Transition_to_dict(t) ==
    [_type |-> "Transition", from_clip |-> t.from_clip, to_clip |-> t.to_clip,
     transition_type |-> t.transition_type, duration |-> t.duration]

Transition_from_dict(data) ==
    Transition(data.from_clip, data.to_clip, data.transition_type, data.duration)

Timeline_to_dict(tl) ==
    [_type |-> "Timeline", version |-> "1.0", frame_rate |-> tl.frame_rate,
     tracks |-> [i \in DOMAIN tl.tracks |-> Track_to_dict(tl.tracks[i])],
     transitions |-> [i \in DOMAIN tl.transitions |-> Transition_to_dict(tl.transitions[i])]]

\* a fresh Timeline whose tracks and transitions are replaced; the duration
\* is not part of the dict
Timeline_from_dict(data) ==
    [Timeline(data.frame_rate)
        EXCEPT !.tracks = [i \in DOMAIN data.tracks |-> Track_from_dict(data.tracks[i])],
               !.transitions = [i \in DOMAIN data.transitions |->
                                   Transition_from_dict(data.transitions[i])]]

\* json.dumps / json.loads carry a dict of string keys, integers, strings,
\* null and lists over unchanged
to_json(tl) == Timeline_to_dict(tl)
from_json(json_str) == Timeline_from_dict(json_str)

MaxRoundTrips == 2

RTStarts == {0, 970, 1000}
RTLens == {29, 30, 60}
RTShapes == {"flat", "nested", "deep"}

\* Timelines built through the API: clips a and b of the length, laid from
\* the start frame, flat on the video track or inside compound clips; with
\* or without an effect on clip a and a ranged effect on the effects
\* track; with or without a transition.
RTTimeline(s, len, shape, with_effects, with_transition) ==
    LET fade == Effect("fade", [direction |-> "in"], Nothing, Nothing)
        a0 == VideoClip("a", s, s + len, "video", "a.mp4", Uuid(1))
        a == IF with_effects THEN [a0 EXCEPT !.effects = <<fade>>] ELSE a0
        b == VideoClip("b", s + len, s + 2 * len, "video", "b.mp4", Uuid(2))
        inner == CompoundClip("inner", s + len, s + 2 * len, "video", <<b>>, Uuid(3))
        outer == CompoundClip("outer", s, s + 2 * len, "video",
                              IF shape = "deep" THEN <<a, inner>> ELSE <<a, b>>, Uuid(4))
        t0 == Timeline(FRAME_RATE)
        t1 == IF shape = "flat"
              THEN add_clip(add_clip(t0, a, 0, Some(s), 0).tl, b, 0, Nothing, 0).tl
              ELSE add_clip(t0, outer, 0, Some(s), 0).tl
        t2 == IF with_effects
              THEN LET pos == get_track(t1, "effect", 0)
                   IN  SetTrackClips(t1, pos,
                           <<Effect("overlay", [asset |-> "logo.png"], Some(s), Some(s + len))>>)
              ELSE t1
    IN  IF with_transition
        THEN [t2 EXCEPT !.transitions = <<Transition("a", "b", "crossfade", 1)>>]
        ELSE t2

RTTimelines ==
    {RTTimeline(s, len, shape, e, t) :
        s \in RTStarts, len \in RTLens, shape \in RTShapes, e \in BOOLEAN, t \in BOOLEAN}

InitRT ==
    /\ timeline \in RTTimelines
    /\ entries = <<>>
    /\ undo_stack = <<>>
    /\ nextId = FirstFreeId
    /\ last = NoCall
    /\ ghost = GhostInit(timeline)

\* timeline = Timeline.from_json(timeline.to_json())
RoundTrip ==
    /\ ghost.calls < MaxRoundTrips
    /\ timeline' = from_json(to_json(timeline))
    /\ last' = [NoCall EXCEPT !.call = "from_json", !.ok = TRUE]
    /\ ghost' = [ghost EXCEPT !.calls = @ + 1]
    /\ UNCHANGED <<entries, undo_stack, nextId>>

NextRT == RoundTrip

SpecRT == InitRT /\ [][NextRT]_vars

\* what the round trip is to keep of a clip: everything but its file path
RECURSIVE Kept(_)
Kept(clips) ==
    [i \in DOMAIN clips |->
        [clips[i] EXCEPT !.file_path = None, !.clips = Kept(clips[i].clips)]]

\* C8: Timeline.from_json(T.to_json()) has the frame rate of T, its tracks
\* in order, for every clip the same name, id, start and end frame, track
\* type, effects and children, and the same transitions.
C8_RoundTripIdentity ==
    last.call = "from_json" =>
        /\ timeline.frame_rate = ghost.base.frame_rate
        /\ timeline.transitions = ghost.base.transitions
        /\ Len(timeline.tracks) = Len(ghost.base.tracks)
        /\ \A t \in DOMAIN timeline.tracks :
              /\ timeline.tracks[t].name = ghost.base.tracks[t].name
              /\ timeline.tracks[t].track_type = ghost.base.tracks[t].track_type
              /\ Kept(timeline.tracks[t].clips) = Kept(ghost.base.tracks[t].clips)

(* ---------------------------------------------------------------------- *)
(* Reference resolution as a function of the timeline (specification     *)
(* SpecRef): one resolve_clip_reference call per step                      *)
(* ---------------------------------------------------------------------- *)
MaxResolves == 1

AudioClip(name, start_frame, end_frame, n) ==
    VideoClip(name, start_frame, end_frame, "audio", name \o ".wav", Uuid(n))

\* Intro[0,60) clip2[60,120) outro[120,180) d[180,240) on the video track
RefFour ==
    AddAll(Timeline(FRAME_RATE), <<Clip("Intro", 0, 60, 1), Clip("clip2", 0, 60, 2),
                                   Clip("outro", 0, 60, 3), Clip("d", 0, 60, 4)>>, 1)

\* clip2 on the video track, Music and voice on the audio track
RefAudio ==
    LET tl == AddAll(Timeline(FRAME_RATE), <<Clip("clip2", 0, 60, 1)>>, 1)
        one == add_clip(tl, AudioClip("Music", 0, 90, 2), 1, Nothing, 0).tl
    IN  add_clip(one, AudioClip("voice", 0, 30, 3), 1, Nothing, 0).tl

\* g{ Intro, clip2 } and outro at the top level of the video track
RefNested ==
    LET g == CompoundClip("g", 0, 120, "video",
                          <<Clip("Intro", 0, 60, 1), Clip("clip2", 60, 120, 2)>>, Uuid(3))
    IN  AddAll(Timeline(FRAME_RATE), <<g, Clip("outro", 0, 60, 4)>>, 1)

\* a second video track in front of the first: d on it, Intro and clip2 behind
RefTwoTracks ==
    LET tl == AddAll(Timeline(FRAME_RATE), <<Clip("Intro", 0, 60, 1), Clip("clip2", 0, 60, 2)>>, 1)
        two == add_track(tl, "Video 2", "video", Some(0), 0).tl
    IN  add_clip(two, Clip("d", 0, 60, 3), 0, Nothing, 0).tl

\* clip2 on the video track and the Effect an OVERLAY leaves on the effects track
RefOverlay ==
    LET tl == AddAll(Timeline(FRAME_RATE), <<Clip("clip2", 0, 60, 1)>>, 1)
        S == [timeline |-> tl, entries |-> <<>>, undo_stack |-> <<>>, nid |-> FirstFreeId]
        overlay == Op("OVERLAY", None, [NoParams EXCEPT !.asset = "logo.png", !.position = "top right",
                                                        !.start = Some(1000), !.end = Some(2000)])
    IN  OverlayOperationHandler(S, overlay).S.timeline

RefTimelines == {Timeline(FRAME_RATE), RefFour, RefAudio, RefNested, RefTwoTracks, RefOverlay}

RefTrackTypes == {"video", "audio", "effect"}
RefPositional == {"first clip", "last clip", "Last Clip", "middle clip"}
RefNamed == {"clip named intro", "clip named INTRO", "clip named clip2",
             "clip named music", "clip named nosuch"}
RefOrdinals == {"first", "second", "third", "fourth", "tenth", "Second",
                "1st", "2nd", "4th", "0th", "11th", "next", None}

InitRef ==
    /\ timeline \in RefTimelines
    /\ entries = <<>>
    /\ undo_stack = <<>>
    /\ nextId = FirstFreeId
    /\ last = NoCall
    /\ ghost = GhostInit(timeline)

\* the outcome r of a resolve_clip_reference call becomes the next state
Referenced(reference, parameters, r) ==
    /\ ghost.calls < MaxResolves
    /\ last' = [call |-> "resolve_clip_reference", op |-> Op("", reference, parameters),
                ok |-> r.name # None, exc |-> r.exc, message |-> r.name]
    /\ ghost' = [ghost EXCEPT !.calls = @ + 1]
    /\ UNCHANGED <<timeline, entries, undo_stack, nextId>>

ResolvePositional(reference, track_type) ==
    Referenced(reference, [NoParams EXCEPT !.reference_type = "positional", !.track_type = track_type],
               resolve_clip_reference(timeline, reference, "positional", track_type, None, None))

ResolveNamed(reference, track_type) ==
    Referenced(reference, [NoParams EXCEPT !.reference_type = "named", !.track_type = track_type],
               resolve_clip_reference(timeline, reference, "named", track_type, None, None))

ResolveOrdinal(ordinal, track_type, ref_track_type) ==
    Referenced("clip", [NoParams EXCEPT !.reference_type = "ordinal", !.track_type = track_type, !.ordinal = ordinal, !.ref_track_type = ref_track_type],
               resolve_clip_reference(timeline, "clip", "ordinal", track_type, ordinal, ref_track_type))

ResolveOther(reference_type) ==
    Referenced("it", [NoParams EXCEPT !.reference_type = reference_type, !.track_type = "video"],
               resolve_clip_reference(timeline, "it", reference_type, "video", None, None))

NextRef ==
    \/ \E reference \in RefPositional, t \in RefTrackTypes : ResolvePositional(reference, t)
    \/ \E reference \in RefNamed, t \in RefTrackTypes : ResolveNamed(reference, t)
    \/ \E ordinal \in RefOrdinals, t \in RefTrackTypes, rt \in {None, "audio"} :
          ResolveOrdinal(ordinal, t, rt)
    \/ \E reference_type \in {"contextual", "relative", "by_start_time"} :
          ResolveOther(reference_type)

SpecRef == InitRef /\ [][NextRef]_vars

\* the top-level clips of the tracks of a type, track after track
RECURSIVE TopLevelClips(_, _)
TopLevelClips(tracks, track_type) ==
    IF tracks = <<>> THEN <<>>
    ELSE (IF Head(tracks).track_type = track_type THEN Head(tracks).clips ELSE <<>>)
         \o TopLevelClips(Tail(tracks), track_type)

\* the number an ordinal word or a numeric ordinal stands for
OrdinalNumber ==
    [o \in {"first", "second", "third", "fourth", "tenth", "1st", "2nd", "4th", "0th", "11th"} |->
        CASE o \in {"first", "1st"} -> 1
          [] o \in {"second", "2nd"} -> 2
          [] o = "third" -> 3
          [] o \in {"fourth", "4th"} -> 4
          [] o = "tenth" -> 10
          [] o = "0th" -> 0
          [] o = "11th" -> 11]

\* the X of 'clip named X'
NamedX ==
    [r \in RefNamed |->
        CASE r = "clip named intro" -> "intro"
          [] r = "clip named INTRO" -> "INTRO"
          [] r = "clip named clip2" -> "clip2"
          [] r = "clip named music" -> "music"
          [] r = "clip named nosuch" -> "nosuch"]

CaseClasses == {{"intro", "Intro", "INTRO"}, {"music", "Music"}, {"clip2", "CLIP2"}}
EqualIgnoringCase(a, b) == a = b \/ \E c \in CaseClasses : a \in c /\ b \in c

ResolvesTo(L, i) == last.ok /\ last.exc = None /\ last.message = L[i].name
NoMatch == ~last.ok /\ last.exc = None

ReferenceRule(L, reference, p) ==
    /\ L = <<>> => NoMatch
    /\ (L # <<>> /\ p.reference_type = "positional" /\ reference = "first clip") => ResolvesTo(L, 1)
    /\ (L # <<>> /\ p.reference_type = "positional" /\ reference = "last clip") => ResolvesTo(L, Len(L))
    /\ (p.reference_type = "ordinal" /\ p.ordinal \in DOMAIN OrdinalNumber) =>
          IF OrdinalNumber[p.ordinal] \in 1..Len(L) THEN ResolvesTo(L, OrdinalNumber[p.ordinal])
          ELSE NoMatch
    /\ p.reference_type = "named" =>
          IF \E i \in DOMAIN L : EqualIgnoringCase(L[i].name, NamedX[reference])
          THEN \E i \in DOMAIN L : EqualIgnoringCase(L[i].name, NamedX[reference]) /\ ResolvesTo(L, i)
          ELSE NoMatch

\* C13: over the list L of the top-level clips of the requested track type,
\* 'first clip' is L[0] and 'last clip' the last element, an ordinal word or
\* numeric ordinal N is L[N-1] or no match when out of range, 'clip named X'
\* is a clip whose name equals X ignoring case or no match, and an empty L
\* gives no match.
C13_ReferenceResolution ==
    last.call = "resolve_clip_reference" =>
        LET p == last.op.parameters
            requested == IF p.reference_type = "ordinal" /\ p.ref_track_type # None
                         THEN p.ref_track_type ELSE p.track_type
        IN  ReferenceRule(TopLevelClips(timeline.tracks, requested), last.op.target, p)

C13_Witness ==
    /\ last.call = "resolve_clip_reference"
    /\ last.op.parameters.reference_type = "ordinal" /\ last.op.parameters.ordinal = "4th"
    /\ last.ok /\ last.message = "d"

(* ---------------------------------------------------------------------- *)
(* Unresolved references in execute (specification Spec)                   *)
(* ---------------------------------------------------------------------- *)
RequestedTrackType(p) ==
    IF p.reference_type = "ordinal" /\ p.ref_track_type # None THEN p.ref_track_type
    ELSE IF p.track_type = None THEN "video" ELSE p.track_type

\* the reference of the operation names no clip of the timeline
Unbound(tl, op) ==
    LET p == op.parameters
        L == SelectSeq(TopLevelClips(tl.tracks, RequestedTrackType(p)), LAMBDA c : ~IsEffect(c))
    IN  \/ p.reference_type \in {"contextual", "relative", "by_start_time"}
        \/ L = <<>>
        \/ /\ p.reference_type = "named"
           /\ ~\E i \in DOMAIN L : EqualIgnoringCase(L[i].name, NamedX[op.target])
        \/ /\ p.reference_type = "ordinal"
           /\ OrdinalNumber[p.ordinal] \notin 1..Len(L)

CouldNotResolve(op) ==
    "Could not resolve reference '" \o op.target \o "' for track type '"
        \o (IF op.parameters.track_type = None THEN "video" ELSE op.parameters.track_type) \o "'."

\* C14: an operation whose reference cannot be bound (ordinal out of range,
\* unknown name, no clip of the track type, contextual / relative /
\* by_start_time) makes execute return a failed result without raising,
\* without running a handler and without changing the timeline.
C14_UnresolvedReferenceFails ==
    [][(/\ last'.call = "execute"
        /\ last'.op.parameters.reference_type # None /\ last'.op.target # None
        /\ Unbound(timeline, last'.op)) =>
           /\ last'.exc = None
           /\ ~last'.ok
           /\ last'.message = CouldNotResolve(last'.op)
           /\ timeline' = timeline]_vars

(* ---------------------------------------------------------------------- *)
(* Range CUT (specification Spec)                                          *)
(* ---------------------------------------------------------------------- *)
\* The range [S,E] in milliseconds against the clip before[i]; times are
\* compared in units of 1/(1000 * frame_rate) second, where a frame is 1000
\* units, a millisecond (the tolerance) frame_rate units.
RangeCutRule(before, after, i, S, E, frame_rate) ==
    LET X == before[i]
        s == X.start * 1000
        e == X.end * 1000
        lo == SetMax({S * frame_rate, s})
        hi == SetMin({E * frame_rate, e})
        proper == S < E /\ S * frame_rate < e /\ E * frame_rate > s
        near(a, b) == Abs(a - b) < frame_rate
        F(x) == RoundHalfEven(x, 1000)
    IN  IF proper /\ near(lo, s) /\ hi < e
        THEN last'.ok /\ Replaced(before, after, i, 1, << <<X.name, F(hi), X.end>> >>)
        ELSE IF proper /\ lo > s /\ near(hi, e)
        THEN last'.ok /\ Replaced(before, after, i, 1, << <<X.name, X.start, F(lo)>> >>)
        ELSE IF proper /\ lo > s /\ hi < e
        THEN last'.ok /\ Replaced(before, after, i, 1,
                                  << <<X.name \o "_part1", X.start, F(lo)>>,
                                     <<X.name \o "_part2", F(hi), X.end>> >>)
        ELSE ~last'.ok /\ last'.exc = None /\ timeline' = timeline

\* C15: a range CUT [S,E] on a clip [start,end), after intersecting the
\* range with the clip, leaves [E,end) when it starts at the clip's start,
\* [start,S) when it ends at the clip's end, and the two clips [start,S) and
\* [E,end) when it lies inside; every other range (S >= E, a range entirely
\* before or after the clip, the whole clip) fails with the timeline unchanged.
C15_RangeCut ==
    [][\A i \in DOMAIN VideoClips(timeline) :
          (/\ last'.call = "execute"
           /\ last'.op.type = "CUT"
           /\ last'.op.parameters.start # Nothing /\ last'.op.parameters.end # Nothing
           /\ last'.op.target = VideoClips(timeline)[i].name
           /\ \A j \in 1..(i - 1) : VideoClips(timeline)[j].name # last'.op.target)
          => RangeCutRule(VideoClips(timeline), VideoClips(timeline'), i,
                          last'.op.parameters.start[1], last'.op.parameters.end[1],
                          timeline.frame_rate)]_vars

(* ---------------------------------------------------------------------- *)
(* Snapshots as objects (specification SpecSnap).  ghost.heap is the       *)
(* sequence of the Timeline objects allocated so far, an address is an     *)
(* index into it, ghost.live is the address of executor.timeline and the   *)
(* snapshots of the history entries are addresses.  The variable timeline  *)
(* is the value of the live object.                                        *)
(* ---------------------------------------------------------------------- *)
MaxSnapSteps == 3

\* a variant of copy.deepcopy that hands back the object itself
deepcopy_same_object(heap, a) == [heap |-> heap, addr |-> a]

\* copy.deepcopy(timeline): a new object with an equal value
deepcopy(heap, a) == [heap |-> Append(heap, heap[a]), addr |-> Len(heap) + 1]

SnapOps ==
    { Op("TRIM", "clip1", [NoParams EXCEPT !.timestamp = Some(1)]),
      Op("CUT", "clip1", [NoParams EXCEPT !.start = Some(0), !.end = Some(1000)]),
      Op("REMOVE", "clip2", NoParams),
      Op("REMOVE", "nosuch", NoParams),
      Op("REMOVE", "clip1", [NoParams EXCEPT !.track_type = "bogus"]) }

InitSnap ==
    /\ timeline = FlatTimeline
    /\ entries = <<>>
    /\ undo_stack = <<>>
    /\ nextId = FirstFreeId
    /\ last = NoCall
    /\ ghost = [GhostInit(timeline) EXCEPT !.seen = <<>>] @@ [heap |-> <<timeline>>, live |-> 1]

\* CommandExecutor.execute on objects: before is the copy taken on entry, r the
\* outcome of the call on the live object, which the handler mutates in place
SnapExecuted(op, before, r) ==
    LET mutated == [before.heap EXCEPT ![ghost.live] = r.S.timeline]
        after == deepcopy(mutated, ghost.live)
        entry == [Last(r.S.entries) EXCEPT !.before_snapshot = before.addr,
                                           !.after_snapshot = after.addr]
    IN  /\ timeline' = r.S.timeline
        /\ nextId' = r.S.nid
        /\ last' = [call |-> "execute", op |-> op, ok |-> r.success, exc |-> r.exc,
                    message |-> r.message]
        /\ IF r.exc = None
           THEN /\ entries' = Append(entries, entry)
                /\ undo_stack' = <<>>
                /\ ghost' = [ghost EXCEPT !.calls = @ + 1, !.heap = after.heap]
           ELSE /\ UNCHANGED <<entries, undo_stack>>
                /\ ghost' = [ghost EXCEPT !.calls = @ + 1, !.heap = mutated]

SnapExecute(op) ==
    /\ ghost.calls < MaxSnapSteps
    /\ SnapExecuted(op, deepcopy(ghost.heap, ghost.live),
                    execute([timeline |-> timeline, entries |-> <<>>, undo_stack |-> <<>>,
                             nid |-> nextId], op, op.type))

\* CommandExecutor.undo / redo on objects: h is the outcome of
\* CommandHistory.undo / redo, whose snapshot is the address held by the entry
SnapRestored(call, h, copy) ==
    /\ entries' = h.S.entries
    /\ undo_stack' = h.S.undo_stack
    /\ last' = [NoCall EXCEPT !.call = call, !.ok = h.snapshot # <<>>]
    /\ timeline' = IF h.snapshot # <<>> THEN copy.heap[copy.addr] ELSE timeline
    /\ ghost' = IF h.snapshot # <<>>
                 THEN [ghost EXCEPT !.calls = @ + 1, !.heap = copy.heap, !.live = copy.addr]
                 ELSE [ghost EXCEPT !.calls = @ + 1]
    /\ UNCHANGED nextId

SnapRestore(call, h) ==
    SnapRestored(call, h, deepcopy(ghost.heap, IF h.snapshot # <<>> THEN h.snapshot[1] ELSE ghost.live))

SnapUndo == ghost.calls < MaxSnapSteps /\ SnapRestore("undo", CommandHistory_undo(State))
SnapRedo == ghost.calls < MaxSnapSteps /\ SnapRestore("redo", CommandHistory_redo(State))

\* a caller mutates executor.timeline directly
SnapMutated(r) ==
    /\ timeline' = r.tl
    /\ nextId' = r.nid
    /\ last' = [NoCall EXCEPT !.call = "mutate", !.ok = r.ret]
    /\ ghost' = [ghost EXCEPT !.calls = @ + 1, !.heap[ghost.live] = r.tl]
    /\ UNCHANGED <<entries, undo_stack>>

SnapMutate ==
    /\ ghost.calls < MaxSnapSteps
    /\ \/ SnapMutated(remove_clip_by_index(timeline, 0, "video", 0, nextId))
       \/ SnapMutated(add_clip(timeline, Clip("n", 0, 60, nextId), 0, Nothing, nextId + 1))

NextSnap ==
    \/ \E op \in SnapOps : SnapExecute(op)
    \/ SnapUndo
    \/ SnapRedo
    \/ SnapMutate

SpecSnap == InitSnap /\ [][NextSnap]_vars

Recorded_entries == {entries[i] : i \in DOMAIN entries} \cup {undo_stack[i] : i \in DOMAIN undo_stack}

\* C16: the snapshots of a history entry are objects of their own and keep
\* their value once recorded: no execute, undo, redo or direct mutation of
\* executor.timeline changes a snapshot of an existing entry, and the
\* timeline installed by undo / redo is never the snapshot object itself.
C16_SnapshotsImmutable ==
    [][/\ \A e \in Recorded_entries :
             /\ ghost'.heap[e.before_snapshot] = ghost.heap[e.before_snapshot]
             /\ ghost'.heap[e.after_snapshot] = ghost.heap[e.after_snapshot]
       /\ \A i \in DOMAIN entries' :
             ghost'.live \notin {entries'[i].before_snapshot, entries'[i].after_snapshot}
       /\ \A i \in DOMAIN undo_stack' :
             ghost'.live \notin {undo_stack'[i].before_snapshot, undo_stack'[i].after_snapshot}]_vars

C16_Witness ==
    /\ last.call = "mutate" /\ last.ok
    /\ undo_stack # <<>>
    /\ ghost.heap[Last(undo_stack).before_snapshot] # timeline
    /\ ghost.heap[Last(undo_stack).before_snapshot] = FlatTimeline

(* ---------------------------------------------------------------------- *)
(* The command parser (specification SpecParse).  A command text is the    *)
(* sequence of its tokens: a word, a single space, ";", "'" or '"'; its    *)
(* characters are the tokens' characters in order.                        *)
(* ---------------------------------------------------------------------- *)
Space == " "
SingleQuote == "'"
DoubleQuote == "\""

RECURSIVE TextOf(_)
TextOf(tokens) == IF tokens = <<>> THEN "" ELSE Head(tokens) \o TextOf(Tail(tokens))

\* str.lower() of a token
LowerToken(t) ==
    CASE t = "AND" -> "and"
      [] t = "THEN" -> "then"
      [] t = "Cut" -> "cut"
      [] OTHER -> t

\* str.strip() of a text
RECURSIVE Strip(_)
Strip(tokens) ==
    IF tokens = <<>> THEN <<>>
    ELSE IF Head(tokens) = Space THEN Strip(Tail(tokens))
    ELSE IF Last(tokens) = Space THEN Strip(Front(tokens))
    ELSE tokens

\* length in tokens of the conjunction that starts at position i (';', ' then '
\* or ' and ', compared in lower case), 0 if none does
ConjunctionAt(text, i) ==
    IF text[i] = ";" THEN 1
    ELSE IF /\ i + 2 <= Len(text) /\ text[i] = Space /\ text[i + 2] = Space
            /\ LowerToken(text[i + 1]) \in {"then", "and"}
    THEN 3
    ELSE 0

Flush(parts, current) == IF Strip(current) # <<>> THEN Append(parts, Strip(current)) ELSE parts

\* the loop of split_outside_quotes from position i
RECURSIVE SplitFrom(_, _, _, _, _, _)
SplitFrom(text, i, parts, current, in_single, in_double) ==
    IF i > Len(text) THEN Flush(parts, current)
    ELSE LET c == text[i]
             single == IF c = SingleQuote /\ ~in_double THEN ~in_single ELSE in_single
             double == IF ~(c = SingleQuote /\ ~in_double) /\ c = DoubleQuote /\ ~in_single
                       THEN ~in_double ELSE in_double
         IN  IF ~single /\ ~double /\ ConjunctionAt(text, i) > 0
             THEN SplitFrom(text, i + ConjunctionAt(text, i), Flush(parts, current), <<>>,
                            single, double)
             ELSE SplitFrom(text, i + 1, parts, Append(current, c), single, double)

\* split_outside_quotes
split_outside_quotes(text) == SplitFrom(text, 1, <<>>, <<>>, FALSE, FALSE)

\* utils.parse_natural_time_expression on the time expressions used: seconds, <<>> for None
parse_natural_time_expression(text) ==
    CASE text = "12s" -> Some(12)
      [] text \in {"00:30", "00:10", "banana"} -> Nothing

\* the integers of "mm:ss"
MinutesSeconds == [t \in {"00:30", "00:10"} |-> IF t = "00:30" THEN <<0, 30>> ELSE <<0, 10>>]

\* utils.timestamp_to_frames on a string: [frames, exc]; float() of a text that
\* is not a number raises ValueError
timestamp_to_frames(timestamp, frame_rate) ==
    IF timestamp \in DOMAIN MinutesSeconds
    THEN [frames |-> MinutesSeconds[timestamp][1] * 60 * frame_rate
                     + MinutesSeconds[timestamp][2] * frame_rate, exc |-> None]
    ELSE IF timestamp = "12s" THEN [frames |-> 12 * frame_rate, exc |-> None]
    ELSE [frames |-> 0, exc |-> "ValueError"]

\* the timestamp parameter of the cut and trim handlers
TimestampFrames(timestamp, frame_rate) ==
    IF parse_natural_time_expression(timestamp) # Nothing
    THEN [frames |-> parse_natural_time_expression(timestamp)[1] * frame_rate, exc |-> None]
    ELSE timestamp_to_frames(timestamp, frame_rate)

\* What the handlers' regular expressions capture in a command without a
\* top-level conjunction: the first handler of the registry that matches
\* and its groups; handler "none" when no handler matches.
NoGroups == [handler |-> "none", target |-> None, timestamp |-> None, second |-> None, text |-> None]

HandlerMatch(command) ==
    CASE command \in {"cut clip1 at 00:30", "Cut clip1 at 00:30"} ->
             [NoGroups EXCEPT !.handler = "cut", !.target = "clip1", !.timestamp = "00:30"]
      [] command = "cut clip1 at banana" ->
             [NoGroups EXCEPT !.handler = "cut", !.target = "clip1", !.timestamp = "banana"]
      [] command = "cut clip3 at 12s" ->
             [NoGroups EXCEPT !.handler = "cut", !.target = "clip3", !.timestamp = "12s"]
      [] command = "trim clip2 to 00:10" ->
             [NoGroups EXCEPT !.handler = "trim", !.target = "clip2", !.timestamp = "00:10"]
      [] command = "join with clip2" -> [NoGroups EXCEPT !.handler = "join_with", !.second = "clip2"]
      [] command = "add text hello" -> [NoGroups EXCEPT !.handler = "add_text", !.text = "hello"]
      [] command = "add text 'rock and roll'" ->
             [NoGroups EXCEPT !.handler = "add_text", !.text = "rock and roll"]
      [] command \in {"make it sparkle!", ""} -> NoGroups

ParseOk(op) == [op |-> op, exc |-> None]
ParseRaise(exc) == [op |-> EditOperation("UNKNOWN", None, NoParams), exc |-> exc]

\* CutCommandHandler.parse / TrimCommandHandler.parse for a plain clip name
TimedParse(type_, m, frame_rate) ==
    IF m.timestamp = None THEN ParseOk(EditOperation(type_, m.target, NoParams))
    ELSE IF TimestampFrames(m.timestamp, frame_rate).exc # None
    THEN ParseRaise(TimestampFrames(m.timestamp, frame_rate).exc)
    ELSE ParseOk(EditOperation(type_, m.target,
             [NoParams EXCEPT !.timestamp = Some(TimestampFrames(m.timestamp, frame_rate).frames)]))

\* handler.parse of the handler that matched: [op, exc]
HandlerParse(m, frame_rate) ==
    CASE m.handler = "cut" -> TimedParse("CUT", m, frame_rate)
      [] m.handler = "trim" -> TimedParse("TRIM", m, frame_rate)
      [] m.handler = "join_with" ->
             ParseOk(EditOperation("JOIN", None, [NoParams EXCEPT !.second = m.second]))
      [] m.handler = "add_text" ->
             ParseOk(EditOperation("ADD_TEXT", None, [NoParams EXCEPT !.text = m.text]))

CompoundOperation(operations) == [type |-> "COMPOUND", operations |-> operations]

\* re.match(r'^\s*(join|merge|combine)\b', command_text, re.I)
StartsWithJoin(text) ==
    Strip(text) # <<>> /\ LowerToken(Head(Strip(text))) \in {"join", "merge", "combine"}

\* the legacy add-text pattern: whether it matches the command
LegacyAddText == [command \in {"make it sparkle!", ""} |-> FALSE]

\* parse_command on a text without a top-level conjunction, after the split
SingleCommand(command, frame_rate) ==
    IF HandlerMatch(command).handler # "none"
    THEN HandlerParse(HandlerMatch(command), frame_rate)
    ELSE IF LegacyAddText[command]
    THEN ParseOk(EditOperation("ADD_TEXT", None, NoParams))
    ELSE ParseOk(EditOperation("UNKNOWN", None, [NoParams EXCEPT !.raw = command]))

\* the contextual filling of a JOIN without a target
Filled(op, prev_target) ==
    IF op.type = "JOIN" /\ Blank(op.target) /\ ~Blank(prev_target)
    THEN [op EXCEPT !.target = prev_target] ELSE op

RECURSIVE parse_command(_, _)
RECURSIVE ParseAll(_, _, _, _, _)

\* one round of the loop over the sub-commands, r being the parse of subs[k]
ParseNext(subs, k, prev_target, operations, frame_rate, r) ==
    IF r.exc # None THEN ParseRaise(r.exc)
    ELSE ParseAll(subs, k + 1,
                  IF ~Blank(Filled(r.op, prev_target).target)
                  THEN Filled(r.op, prev_target).target ELSE prev_target,
                  Append(operations, Filled(r.op, prev_target)), frame_rate)

ParseAll(subs, k, prev_target, operations, frame_rate) ==
    IF k > Len(subs) THEN ParseOk(CompoundOperation(operations))
    ELSE ParseNext(subs, k, prev_target, operations, frame_rate,
                   parse_command(subs[k], frame_rate))

\* CommandParser.parse_command (use_llm = False): [op, exc]
parse_command(text, frame_rate) ==
    IF StartsWithJoin(text) /\ HandlerMatch(TextOf(text)).handler # "none"
    THEN HandlerParse(HandlerMatch(TextOf(text)), frame_rate)
    ELSE IF Len(split_outside_quotes(text)) > 1
    THEN ParseAll(split_outside_quotes(text), 1, None, <<>>, frame_rate)
    ELSE SingleCommand(TextOf(text), frame_rate)

\* CommandParser.validate_command: [valid, message]
validate_command(operation) ==
    LET p == operation.parameters
        verdict(v, m) == [valid |-> v, message |-> m]
    IN  CASE operation.type \in {"CUT", "TRIM"} ->
                 IF Blank(operation.target)
                 THEN verdict(FALSE, operation.type \o " command requires a target clip name.")
                 ELSE IF p.timestamp = Nothing
                 THEN verdict(FALSE, operation.type \o " command requires a timestamp.")
                 ELSE verdict(TRUE, "Valid " \o operation.type \o " command.")
          [] operation.type = "ADD_TEXT" ->
                 IF Blank(p.text) THEN verdict(FALSE, "ADD_TEXT command requires text.")
                 ELSE IF p.start = Nothing \/ p.end = Nothing
                 THEN verdict(FALSE, "ADD_TEXT command requires start and end times.")
                 ELSE verdict(TRUE, "Valid ADD_TEXT command.")
          [] operation.type = "JOIN" ->
                 IF Blank(operation.target)
                 THEN verdict(FALSE, "JOIN command requires a first clip name.")
                 ELSE IF Blank(p.second)
                 THEN verdict(FALSE, "JOIN command requires a second clip name.")
                 ELSE verdict(TRUE, "Valid JOIN command.")
          [] operation.type = "OVERLAY" ->
                 IF Blank(p.asset)
                 THEN verdict(FALSE, "OVERLAY command requires an asset (e.g., image or video file).")
                 ELSE verdict(TRUE, "Valid OVERLAY command.")
          [] operation.type = "FADE" ->
                 IF Blank(p.direction)
                 THEN verdict(FALSE, "FADE command requires a direction (in or out).")
                 ELSE IF Blank(p.target)
                 THEN verdict(FALSE, "FADE command requires a target (audio, clip name, etc.).")
                 ELSE verdict(TRUE, "Valid FADE command.")
          [] operation.type = "UNKNOWN" -> verdict(FALSE, "Unknown command type.")
          [] OTHER -> verdict(TRUE, "Valid command.")

MaxParses == 1
PARSE_FRAME_RATE == 30

Words(a, b, c, d) == <<a, Space, b, Space, c, Space, d>>

CutSegments == {Words("cut", "clip1", "at", "00:30"), Words("Cut", "clip1", "at", "00:30"),
                Words("cut", "clip1", "at", "banana"), Words("cut", "clip3", "at", "12s")}
OtherSegments ==
    { Words("trim", "clip2", "to", "00:10"),
      <<"add", Space, "text", Space, "hello">>,
      <<"add", Space, "text", Space, SingleQuote, "rock", Space, "and", Space, "roll", SingleQuote>>,
      <<"make", Space, "it", Space, "sparkle!">> }
JoinSegments == {<<"join", Space, "with", Space, "clip2">>}
Segments == CutSegments \cup OtherSegments \cup JoinSegments

Conjunctions == {<<";">>, <<";", Space>>, <<Space, "then", Space>>, <<Space, "and", Space>>,
                 <<Space, "AND", Space>>}

TripleConjunctions == {<<";">>, <<Space, "and", Space>>}

InitParse ==
    /\ timeline = Timeline(FRAME_RATE)
    /\ entries = <<>>
    /\ undo_stack = <<>>
    /\ nextId = FirstFreeId
    /\ last = NoCall
    /\ ghost = GhostInit(timeline)

\* the outcome r of parse_command(text), followed by validate_command when r
\* is an EditOperation, becomes the next state
Parsed(segments, text, r) ==
    /\ ghost.calls < MaxParses
    /\ last' = [call |-> "parse_command",
                op |-> IF r.exc = None /\ r.op.type # "COMPOUND" THEN r.op ELSE NoCall.op,
                ok |-> r.exc = None, exc |-> r.exc, message |-> TextOf(text)]
    /\ ghost' = [ghost EXCEPT !.calls = @ + 1,
                               !.arg = Some([segments |-> segments, result |-> r.op,
                                             verdict |-> IF r.exc = None /\ r.op.type # "COMPOUND"
                                                         THEN Some(validate_command(r.op))
                                                         ELSE Nothing])]
    /\ UNCHANGED <<timeline, entries, undo_stack, nextId>>

ParseOne(a) == Parsed(<<a>>, a, parse_command(a, PARSE_FRAME_RATE))
ParseTwo(a, x, b) == Parsed(<<a, b>>, a \o x \o b, parse_command(a \o x \o b, PARSE_FRAME_RATE))
ParseThree(a, x, b, y, c) ==
    Parsed(<<a, b, c>>, a \o x \o b \o y \o c, parse_command(a \o x \o b \o y \o c, PARSE_FRAME_RATE))

NextParse ==
    \/ \E a \in Segments \cup {<<>>} : ParseOne(a)
    \/ \E a \in CutSegments \cup OtherSegments, x \in Conjunctions, b \in Segments : ParseTwo(a, x, b)
    \/ \E a \in CutSegments \cup OtherSegments, x \in TripleConjunctions, b \in Segments,
          y \in TripleConjunctions, c \in Segments : ParseThree(a, x, b, y, c)

SpecParse == InitParse /\ [][NextParse]_vars

\* ---- properties of the parser ----

ParsedNow == last.call = "parse_command" /\ ghost.arg # Nothing
ParsedSegments == ghost.arg[1].segments
ParsedResult == ghost.arg[1].result

\* the operation segment i contributes to a compound result, given the
\* operation the segment before it contributed
Contribution(segments, operations, i) ==
    IF /\ parse_command(segments[i], PARSE_FRAME_RATE).op.type = "JOIN"
       /\ Blank(parse_command(segments[i], PARSE_FRAME_RATE).op.target)
       /\ i > 1
    THEN [parse_command(segments[i], PARSE_FRAME_RATE).op EXCEPT !.target = operations[i - 1].target]
    ELSE parse_command(segments[i], PARSE_FRAME_RATE).op

\* C17: a text that does not begin with join/merge/combine and splits into
\* k >= 2 segments outside quotes parses to a CompoundOperation holding the
\* parses of the k segments in text order, a JOIN segment without a target
\* receiving the target of the segment before it.
C17_CompoundParse ==
    (ParsedNow /\ Len(ParsedSegments) >= 2) =>
        /\ last.ok
        /\ ParsedResult.type = "COMPOUND"
        /\ Len(ParsedResult.operations) = Len(ParsedSegments)
        /\ \A i \in 1..Len(ParsedSegments) :
               ParsedResult.operations[i] =
                   Contribution(ParsedSegments, ParsedResult.operations, i)

OPERATION_TYPES == {"CUT", "TRIM", "JOIN", "ADD_TEXT", "OVERLAY", "FADE", "CUT_GROUP", "UNKNOWN", "COMPOUND"}

\* C18: parse_command never raises and returns an operation; when no handler
\* and no legacy pattern matches, the operation is UNKNOWN with the input
\* text as raw, and validate_command reports it invalid.
C18_ParseNeverRaises ==
    ParsedNow =>
        /\ last.ok
        /\ ParsedResult.type \in OPERATION_TYPES
        /\ (/\ Len(ParsedSegments) = 1
            /\ HandlerMatch(last.message).handler = "none"
            /\ ~LegacyAddText[last.message])
           => /\ ParsedResult = EditOperation("UNKNOWN", None, [NoParams EXCEPT !.raw = last.message])
              /\ ghost.arg[1].verdict # Nothing
              /\ ~ghost.arg[1].verdict[1].valid

(* ---------------------------------------------------------------------- *)
(* Timeline.move_clip (specification SpecTL)                               *)
(* ---------------------------------------------------------------------- *)
\* the number of clips of the timeline, nested ones included
RECURSIVE CountFrom(_, _)
CountFrom(tl, t) ==
    IF t > Len(tl.tracks) THEN 0
    ELSE Len(flatten_clips(tl.tracks[t].clips, 1, <<>>)) + CountFrom(tl, t + 1)
CountClips(tl) == CountFrom(tl, 1)

MoveCall == last'.call = "move_clip"
MovedPath == FirstNamed(VideoClips(timeline), last'.op.target)
DestType == last'.op.parameters.track_type
DestClips(tl) == tl.tracks[get_track(tl, DestType, 0)].clips

\* the clip X taken from path arrived as the last clip of the destination
MovedTo(clips, path, X, dest) ==
    /\ dest # <<>>
    /\ Last(dest) = Moved([X EXCEPT !.track_type = DestType],
                          IF Len(dest) = 1 THEN 0 ELSE dest[Len(dest) - 1].end)
    /\ IF DestType = "video"
       THEN SameButAncestorBounds(WithoutSubtree(clips, path), Front(dest), path)
       ELSE /\ SameButAncestorBounds(WithoutSubtree(clips, path), VideoClips(timeline'), path)
            /\ Front(dest) = DestClips(timeline)

\* C21: move_clip of an existing clip takes it out of its source container,
\* retags it with the destination type and appends it as the last clip of
\* the destination track, starting at the destination's last end (0 if
\* empty) with its duration and id kept; the number of clips of the timeline
\* is unchanged; for a clip that is not found it returns False and changes
\* nothing.
C21_MoveClip ==
    [][MoveCall =>
          IF MovedPath = <<>>
          THEN last'.exc = None /\ ~last'.ok /\ timeline' = timeline
          ELSE /\ last'.exc = None /\ last'.ok
               /\ get_track(timeline', DestType, 0) # 0
               /\ MovedTo(VideoClips(timeline), MovedPath,
                          ClipAt(VideoClips(timeline), MovedPath), DestClips(timeline'))
               /\ CountClips(timeline') = CountClips(timeline)]_vars

\* C26: a move_clip that cannot place the clip at the destination leaves the
\* timeline exactly as it was before the call.
C26_MoveAllOrNothing ==
    [][(MoveCall /\ last'.exc # None) => timeline' = timeline]_vars

(* ---------------------------------------------------------------------- *)
(* Group cut (specification Spec)                                          *)
(* ---------------------------------------------------------------------- *)
\* start and end of each clip of the list, a clip containing F given as its
\* two parts [start,F) and [F,end)
RECURSIVE SplitAt(_, _, _)
SplitAt(clips, i, F) ==
    IF i > Len(clips) THEN <<>>
    ELSE (IF clips[i].start < F /\ F < clips[i].end
          THEN << <<clips[i].start, F>>, <<F, clips[i].end>> >>
          ELSE << <<clips[i].start, clips[i].end>> >>) \o SplitAt(clips, i + 1, F)

StartEnd(clips) == [i \in DOMAIN clips |-> <<clips[i].start, clips[i].end>>]
Containing(clips, F) == SelectSeq(clips, LAMBDA c : c.start < F /\ F < c.end)

\* the group cut at F did for the clips `matching` what the claim lists
GroupCutDone(matching, F) ==
    /\ Len(entries') = Len(entries) + Len(matching) + 1
    /\ \A k \in DOMAIN matching :
          /\ entries'[Len(entries) + k].operation.type = "CUT"
          /\ entries'[Len(entries) + k].operation.target = matching[k].name
          /\ entries'[Len(entries) + k].operation.parameters.timestamp = Some(F)
    /\ last'.ok = \A k \in DOMAIN matching : entries'[Len(entries) + k].result.success
    /\ StartEnd(VideoClips(timeline')) = SplitAt(VideoClips(timeline), 1, F)

\* C22: a CUT_GROUP at frame F issues one CUT at F for each top-level clip
\* of the track type with start < F < end and for no other clip, goes on
\* after a failing one, and succeeds iff each of them succeeded; afterwards
\* each such clip is split at F and the others are untouched; when no clip
\* contains F it fails and the timeline is unchanged.
C22_GroupCut ==
    [][(/\ last'.call = "execute" /\ last'.exc = None
        /\ last'.op.type = "CUT_GROUP" /\ last'.op.parameters.timestamp # Nothing) =>
          IF Containing(VideoClips(timeline), last'.op.parameters.timestamp[1]) = <<>>
          THEN ~last'.ok /\ timeline' = timeline
          ELSE GroupCutDone(Containing(VideoClips(timeline), last'.op.parameters.timestamp[1]),
                            last'.op.parameters.timestamp[1])]_vars

(* ---------------------------------------------------------------------- *)
(* Addressing a clip by id or by reference (specification SpecAddr)        *)
(* ---------------------------------------------------------------------- *)
MaxAddrOps == 2

\* the same file loaded twice: intro [0,1800), intro [1800,3600)
LoadedTwice ==
    load_video(load_video(Timeline(FRAME_RATE), "media/intro.mp4", 0, Nothing, Nothing, 1).tl,
               "media/intro.mp4", 0, Nothing, Nothing, 2).tl

\* intro, clip2 on the first video track and another intro on a second one
TwoVideoTracks ==
    LET tl == AddAll(Timeline(FRAME_RATE), <<Clip("intro", 0, 60, 1), Clip("clip2", 0, 60, 2)>>, 1)
        two == add_track(tl, "Video 2", "video", Nothing, 0).tl
    IN  add_clip(two, Clip("intro", 0, 60, 3), Len(two.tracks) - 1, Nothing, 0).tl

AddrTimelines == {FlatTimeline, LoadedTwice, TwoVideoTracks}

AddrOps ==
    { Op("TRIM", None, [NoParams EXCEPT !.clip_id = "id1", !.timestamp = Some(1)]),
      Op("TRIM", None, [NoParams EXCEPT !.clip_id = "id1", !.timestamp = Some(1),
                                        !.track_index = Some(0)]),
      Op("REMOVE", None, [NoParams EXCEPT !.clip_id = "id2"]),
      Op("JOIN", None, [NoParams EXCEPT !.clip_id = "id1", !.second_clip_id = "id2"]),
      Op("JOIN", None, [NoParams EXCEPT !.clip_id = "id1", !.second_clip_id = "id2",
                                        !.track_index = Some(0)]),
      Op("CUT", None, [NoParams EXCEPT !.clip_id = "id1", !.start = Some(0), !.end = Some(1000)]),
      Op("REMOVE", "first clip", [NoParams EXCEPT !.reference_type = "positional",
                                                  !.clip_id = "id2"]),
      Op("REMOVE", "last clip", [NoParams EXCEPT !.reference_type = "positional"]),
      Op("REMOVE", "clip", [NoParams EXCEPT !.reference_type = "ordinal", !.ordinal = "second"]),
      Op("REMOVE", "clip named intro", [NoParams EXCEPT !.reference_type = "named"]),
      Op("TRIM", "first clip", [NoParams EXCEPT !.reference_type = "positional",
                                                !.timestamp = Some(1)]) }

InitAddr ==
    /\ timeline \in AddrTimelines
    /\ entries = <<>>
    /\ undo_stack = <<>>
    /\ nextId = FirstFreeId
    /\ last = NoCall
    /\ ghost = GhostInit(timeline)

Address(op) ==
    /\ ghost.calls < MaxAddrOps
    /\ Executed(op, execute(State, op, op.type))

NextAddr == \E op \in AddrOps : Address(op)

SpecAddr == InitAddr /\ [][NextAddr]_vars

\* the clips of all video tracks, in track order
AllVideo(tl) == ConcatClips(tl, TrackPosSeq(tl, "video"), 1)

\* `after` is `all` with nothing changed outside the n clips from index i
\* on, and something changed
OnlyChanged(all, after, i, n) ==
    /\ after # all
    /\ Len(after) >= Len(all) - n
    /\ SubSeq(after, 1, i - 1) = SubSeq(all, 1, i - 1)
    /\ SubSeq(after, Len(after) - (Len(all) - (i + n - 1)) + 1, Len(after))
          = SubSeq(all, i + n, Len(all))

\* index in `all` of the clip with the id, 0 if none
IndexOfId(all, id) ==
    IF \E i \in DOMAIN all : all[i].clip_id = id
    THEN CHOOSE i \in DOMAIN all : all[i].clip_id = id ELSE 0

\* the operation can be carried out on the clip at index i
Applicable(op, all, i, frame_rate) ==
    CASE op.type = "TRIM" -> /\ all[i].start < op.parameters.timestamp[1] * frame_rate
                             /\ op.parameters.timestamp[1] * frame_rate < all[i].end
      [] op.type = "JOIN" -> /\ i < Len(all)
                             /\ all[i + 1].clip_id = op.parameters.second_clip_id
                             /\ all[i].end = all[i + 1].start
      [] op.type = "CUT" -> /\ all[i].start * MsPerSecond = op.parameters.start[1] * frame_rate
                            /\ op.parameters.end[1] * frame_rate < all[i].end * MsPerSecond
      [] OTHER -> TRUE

\* C23: an operation carrying a clip_id (and second_clip_id) reaches the
\* handler with the ids unchanged and is applied to the clip with that id,
\* also without a target and without a track_index; once a reference was
\* resolved, the operation handed on and recorded carries none of
\* reference_type, ordinal, ref_track_type.
C23_AddressedById ==
    [][(last'.call = "execute" /\ last'.exc = None) =>
          /\ last'.op.parameters.clip_id # None =>
                /\ Last(entries').operation.parameters.clip_id = last'.op.parameters.clip_id
                /\ Last(entries').operation.parameters.second_clip_id
                      = last'.op.parameters.second_clip_id
                /\ (/\ IndexOfId(AllVideo(timeline), last'.op.parameters.clip_id) # 0
                    /\ Applicable(last'.op, AllVideo(timeline),
                                  IndexOfId(AllVideo(timeline), last'.op.parameters.clip_id),
                                  timeline.frame_rate))
                   => /\ last'.ok
                      /\ OnlyChanged(AllVideo(timeline), AllVideo(timeline'),
                                     IndexOfId(AllVideo(timeline), last'.op.parameters.clip_id),
                                     IF last'.op.type = "JOIN" THEN 2 ELSE 1)
          /\ (Resolving(last'.op) /\ last'.ok) =>
                /\ Last(entries').operation.parameters.reference_type = None
                /\ Last(entries').operation.parameters.ordinal = None
                /\ Last(entries').operation.parameters.ref_track_type = None]_vars

\* index in `all` of the clip a reference stands for, 0 if none
ReferredIndex(op, all) ==
    CASE op.parameters.reference_type = "positional" /\ op.target = "last clip" -> Len(all)
      [] op.parameters.reference_type = "positional" /\ op.target = "first clip" ->
            IF all = <<>> THEN 0 ELSE 1
      [] op.parameters.reference_type = "ordinal" /\ op.parameters.ordinal = "second" ->
            IF Len(all) >= 2 THEN 2 ELSE 0
      [] op.parameters.reference_type = "named" /\ op.target = "clip named intro" ->
            IF \E i \in DOMAIN all : all[i].name = "intro"
            THEN SetMin({i \in DOMAIN all : all[i].name = "intro"}) ELSE 0
      [] OTHER -> 0

\* C30: when a positional, ordinal or named reference resolves to the clip
\* at index i of the clips of the track type, a successful operation changes
\* that clip and no other, also when another clip has the same name.
C30_ReferenceHitsItsClip ==
    [][(/\ last'.call = "execute" /\ last'.exc = None /\ last'.ok
        /\ Resolving(last'.op) /\ last'.op.parameters.clip_id = None
        /\ ReferredIndex(last'.op, AllVideo(timeline)) # 0) =>
          OnlyChanged(AllVideo(timeline), AllVideo(timeline'),
                      ReferredIndex(last'.op, AllVideo(timeline)), 1)]_vars

(* ---------------------------------------------------------------------- *)
(* Timeline edits mixed with the executor's range CUT (specification       *)
(* SpecEdit)                                                               *)
(* ---------------------------------------------------------------------- *)
CutNames == {"a", "b"}
\* <<start, end>> of the range in milliseconds
CutRanges == {<<0, 1000>>, <<500, 1500>>, <<0, 1990>>}

RangeCut(name, range) ==
    Op("CUT", name, [NoParams EXCEPT !.start = Some(range[1]), !.end = Some(range[2])])

EditCut(name, range) ==
    /\ ghost.calls < MaxCalls
    /\ Executed(RangeCut(name, range), execute(State, RangeCut(name, range), "CUT"))

\* Timeline.trim_clip on the first track of the given type
EditTrimOn(track_type, name, T) ==
    Called("trim_clip", name, [NoParams EXCEPT !.timestamp = Some(T), !.track_type = track_type],
           trim_clip(timeline, name, Some(T), track_type, 0, None, nextId))

NextEdit ==
    \/ \E kind \in {"leaf", "compound"}, position \in Positions : TLAddClip(kind, position)
    \/ \E t \in {"video", "audio"}, name \in TrimNames, T \in TrimTimes : EditTrimOn(t, name, T)
    \/ \E pair \in JoinPairs : TLJoinClips(pair[1], pair[2])
    \/ \E name \in RemoveNames : TLRemoveClip(name)
    \/ \E name \in MoveNames, t \in MoveTracks, position \in Positions :
          TLMoveClip(name, t, position)
    \/ \E name \in CutNames, range \in CutRanges : EditCut(name, range)

SpecEdit == InitTL /\ [][NextEdit]_vars

(* ---------------------------------------------------------------------- *)
(* Clip ids                                                                *)
(* ---------------------------------------------------------------------- *)
\* the ids of the clips at the given paths
IdsAt(clips, paths) == [k \in DOMAIN paths |-> ClipAt(clips, paths[k]).clip_id]

\* the ids of all clips of the timeline, nested ones included, track by track
RECURSIVE IdsFrom(_, _)
IdsFrom(tl, t) ==
    IF t > Len(tl.tracks) THEN <<>>
    ELSE IdsAt(tl.tracks[t].clips, flatten_clips(tl.tracks[t].clips, 1, <<>>))
         \o IdsFrom(tl, t + 1)

ClipIds(tl) == IdsFrom(tl, 1)

PairwiseDistinct(s) == \A i, j \in DOMAIN s : s[i] = s[j] => i = j

\* the ids of the clips a trim_clip or join_clips call on track (type, 0) replaces
ReplacedIds(tl, op) ==
    LET pos == get_track(tl, GetOr(op.parameters.track_type, "video"), 0)
        clips == tl.tracks[pos].clips
        path == _find_clip_recursive(clips, op.target, None)
        parent == ParentAt(clips, path)
    IN  IF op.type = "trim_clip" THEN {ClipAt(clips, path).clip_id}
        ELSE {parent[path[Len(path)]].clip_id, parent[path[Len(path)] + 1].clip_id}

\* the ids of the clips that carry the names trim_clip and join_clips give their results
ResultIds(tl, op) ==
    LET pos == get_track(tl, GetOr(op.parameters.track_type, "video"), 0)
        clips == tl.tracks[pos].clips
        flat == flatten_clips(clips, 1, <<>>)
        made == IF op.type = "trim_clip"
                THEN {op.target \o "_part1", op.target \o "_part2"}
                ELSE {op.target \o "_joined_" \o op.parameters.second}
    IN  {ClipAt(clips, flat[k]).clip_id :
            k \in {n \in DOMAIN flat : ClipAt(clips, flat[n]).name \in made}}

TrimmedOrJoined == last'.call \in {"trim_clip", "join_clips"} /\ last'.exc = None /\ last'.ok

\* C24: after a successful trim_clip or join_clips no resulting clip carries
\* the id of a clip it replaced and the replaced ids are no longer found in
\* the timeline; the ids of the clips of the live timeline are pairwise
\* distinct after any sequence of add, trim, join, cut, remove and move.
C24_FreshDistinctIds ==
    /\ [](PairwiseDistinct(ClipIds(timeline)))
    /\ [][TrimmedOrJoined =>
             /\ ResultIds(timeline', last'.op) # {}
             /\ ResultIds(timeline', last'.op) \cap ReplacedIds(timeline, last'.op) = {}
             /\ \A id \in ReplacedIds(timeline, last'.op) :
                    \A k \in DOMAIN ClipIds(timeline') : ClipIds(timeline')[k] # id]_vars

C24_Witness ==
    /\ ghost.calls = 2
    /\ last.call = "join_clips" /\ last.ok /\ last.op.target = "a_part1"
    /\ Len(ClipIds(timeline)) = 3
    /\ \E k \in DOMAIN ClipIds(timeline) : ClipIds(timeline)[k] = Uuid(FirstFreeId + 2)

(* ---------------------------------------------------------------------- *)
(* The live timeline and the snapshots of the history (specification Spec) *)
(* ---------------------------------------------------------------------- *)
\* before of entry i+1 is after of entry i
Chained(es) == \A i \in 1..(Len(es) - 1) : es[i + 1].before_snapshot = es[i].after_snapshot

\* C25: after an execute or a redo with a non-empty log the timeline equals
\* the after-snapshot of the last log entry; after an undo it equals the
\* before-snapshot of the most recent redo-buffer entry and, with a non-empty
\* log, the after-snapshot of the log's last entry; consecutive log entries
\* chain, group operations included.
C25_TimelineMatchesSnapshots ==
    /\ (last.call \in {"execute", "redo"} /\ entries # <<>>) =>
           timeline = Last(entries).after_snapshot
    /\ last.call = "undo" =>
           /\ undo_stack # <<>> => timeline = Last(undo_stack).before_snapshot
           /\ entries # <<>> => timeline = Last(entries).after_snapshot
    /\ Chained(entries)

C25_Witness ==
    /\ last.call = "undo" /\ last.ok
    /\ Len(entries) = 2 /\ Len(undo_stack) = 1
    /\ entries[1].operation.type = "CUT" /\ entries[2].operation.type = "CUT_GROUP"
    /\ Last(undo_stack).result.success
    /\ Last(undo_stack).after_snapshot # timeline

(* ---------------------------------------------------------------------- *)
(* What trim_clip and join_clips carry over (specification SpecEdit)       *)
(* ---------------------------------------------------------------------- *)
\* CompoundClip.flatten_clips; a clip that is not a CompoundClip is itself
RECURSIVE Leaves(_, _)
Leaves(clips, i) ==
    IF i > Len(clips) THEN <<>>
    ELSE (IF IsCompound(clips[i]) THEN Leaves(clips[i].clips, 1) ELSE <<clips[i]>>)
         \o Leaves(clips, i + 1)

RECURSIVE LeavesOfType(_, _, _)
LeavesOfType(tl, track_type, t) ==
    IF t > Len(tl.tracks) THEN <<>>
    ELSE (IF tl.tracks[t].track_type = track_type THEN Leaves(tl.tracks[t].clips, 1) ELSE <<>>)
         \o LeavesOfType(tl, track_type, t + 1)

\* list.sort(key=start): stable insertion into the sorted prefix
RECURSIVE SortedByStart(_)
SortedByStart(s) ==
    IF s = <<>> THEN <<>>
    ELSE LET rest == SortedByStart(Front(s))
             x == Last(s)
             n == Cardinality({k \in DOMAIN rest : rest[k].start <= x.start})
         IN  SubSeq(rest, 1, n) \o <<x>> \o SubSeq(rest, n + 1, Len(rest))

\* Timeline.get_all_clips
get_all_clips(tl, track_type) ==
    LET clips == SortedByStart(LeavesOfType(tl, track_type, 1))
    IN  IF \E k \in DOMAIN clips : clips[k].file_path \in {None, ""}
        THEN [clips |-> <<>>, exc |-> "AttributeError"]
        ELSE [clips |-> clips, exc |-> None]

\* the clips trim_clip or join_clips made, by the names they give them
Results(tl, op) ==
    LET pos == get_track(tl, GetOr(op.parameters.track_type, "video"), 0)
        clips == tl.tracks[pos].clips
        flat == flatten_clips(clips, 1, <<>>)
        made == IF op.type = "trim_clip"
                THEN {op.target \o "_part1", op.target \o "_part2"}
                ELSE {op.target \o "_joined_" \o op.parameters.second}
    IN  {ClipAt(clips, flat[k]) :
            k \in {n \in DOMAIN flat : ClipAt(clips, flat[n]).name \in made}}

\* the clip a trim_clip call replaces, the first clip of a join_clips call
Target(tl, op) ==
    LET pos == get_track(tl, GetOr(op.parameters.track_type, "video"), 0)
        clips == tl.tracks[pos].clips
    IN  ClipAt(clips, _find_clip_recursive(clips, op.target, None))

KeepsAttributes(old, results, ids, track_type) ==
    /\ \A c \in results :
          /\ c.track_type = old.track_type
          /\ c.file_path = old.file_path
          /\ c.effects = old.effects
    /\ (last'.call = "trim_clip" /\ IsCompound(old)) =>
          \A k \in DOMAIN old.clips : \E n \in DOMAIN ids : ids[n] = old.clips[k].clip_id
    /\ get_all_clips(timeline, track_type).exc = None =>
          get_all_clips(timeline', track_type).exc = None

\* C27: the clips a successful trim_clip or join_clips makes keep the
\* track_type, file_path and effects of the clip they replace (of the first
\* clip for a join); the children of a trimmed CompoundClip are still in the
\* timeline; and get_all_clips still returns for that track type.
C27_TrimJoinKeepAttributes ==
    [][TrimmedOrJoined =>
          KeepsAttributes(Target(timeline, last'.op), Results(timeline', last'.op),
                          ClipIds(timeline'), GetOr(last'.op.parameters.track_type, "video"))]_vars

(* ---------------------------------------------------------------------- *)
(* Clip durations (specification Spec)                                     *)
(* ---------------------------------------------------------------------- *)
\* every clip of the list, nested ones included, has start < end
RECURSIVE PositiveDurations(_)
PositiveDurations(clips) ==
    \A i \in DOMAIN clips :
        IsEffect(clips[i]) \/ (clips[i].start < clips[i].end /\ PositiveDurations(clips[i].clips))

\* C28: every clip of the live timeline has start < end after any sequence
\* of executor operations on a timeline whose clips were added with positive
\* duration; a range CUT never leaves a clip of zero or negative length.
C28_PositiveDuration ==
    \A t \in DOMAIN timeline.tracks : PositiveDurations(timeline.tracks[t].clips)

(* ---------------------------------------------------------------------- *)
(* Order of the clips of a track (specification SpecEdit)                  *)
(* ---------------------------------------------------------------------- *)
\* listed by increasing start, each ending no later than the next starts
InOrder(clips) ==
    \A i \in 1..(Len(clips) - 1) :
        /\ clips[i].start <= clips[i + 1].start
        /\ clips[i].end <= clips[i + 1].start

\* C29: in every track the top-level clips are listed in increasing start
\* order and do not overlap, after any sequence of add_clip, trim_clip,
\* join_clips, remove_clip, move_clip and executor range CUT.
C29_OrderedNoOverlap ==
    \A t \in DOMAIN timeline.tracks : InOrder(timeline.tracks[t].clips)
====
